---- MODULE Spec2Model ----
(***************************************************************************)
(* The solo coin-flip round lifecycle: round creation under the per-player *)
(* creation lock, the round store on its two backends (the shared table    *)
(* with its partial unique index, and the local file with its write        *)
(* queue), payment detection, the claim / resolve / payout / finalize      *)
(* path of processSoloRoundLifecycle and the legacy payout retry.          *)
(*                                                                         *)
(* Every await of the code is a step boundary: between two awaits a        *)
(* handler runs without interruption (one JavaScript thread per instance), *)
(* and handlers of different instances interleave at the same boundaries   *)
(* because they only meet in the store.                                    *)
(***************************************************************************)
EXTENDS Integers, Sequences, FiniteSets, TLC

\* ------------------------------------------------------------------ bounds
NumCallers == 2
\* rounds ever stored under Spec, where lifecycle calls interleave freely
MaxRounds == 1
\* rounds ever stored under SpecCreate, and the lifecycle calls in flight there
CreateMaxRounds == 2
CreateMaxLifecycle == 1
MaxTokens == 4
MaxCount == 2

Callers == 1..NumCallers
RoundIds == 1..(IF MaxRounds > CreateMaxRounds THEN MaxRounds ELSE CreateMaxRounds)
Tokens == 1..MaxTokens
Instances == {"i1", "i2"}
Moves == {"heads", "tails"}

None == "none"

\* ------------------------------------------------------------- addresses
\* An address is a sequence of characters; two spellings of one account
\* differ in letter case only.
HexChars == {"a", "A", "b", "B"}

LowerChar(ch) ==
  CASE ch = "A" -> "a"
    [] ch = "B" -> "b"
    [] OTHER -> ch

RECURSIVE TrimLeft(_)
TrimLeft(s) == IF s # <<>> /\ Head(s) = " " THEN TrimLeft(Tail(s)) ELSE s

RECURSIVE TrimRight(_)
TrimRight(s) ==
  IF s # <<>> /\ s[Len(s)] = " " THEN TrimRight(SubSeq(s, 1, Len(s) - 1)) ELSE s

Trim(s) == TrimRight(TrimLeft(s))

ToLowerCase(s) == [i \in 1..Len(s) |-> LowerChar(s[i])]

normalizeAddressKey(value) == ToLowerCase(Trim(value))

isAddress(value) == value # <<>> /\ \A i \in 1..Len(value) : value[i] \in HexChars

\* Mutant of matchesPlayer: the two addresses are compared as they are spelled.
matchesPlayer_CaseSensitive(round, playerAddress) ==
  Trim(round.playerAddress) = Trim(playerAddress)

matchesPlayer(round, playerAddress) ==
  normalizeAddressKey(round.playerAddress) = normalizeAddressKey(playerAddress)

\* The player addresses a request can carry: two spellings of one account,
\* a second account, and a string that is no address.
PlayerInputs == {<<"a">>, <<"A">>, <<"b">>, <<" ", "a">>}

\* The value of CIRCLES_ORG_AVATAR_ADDRESS in the environment: unset, or the
\* organisation's address.
OrgInputs == {<<>>, <<"B", "b">>}

\* ----------------------------------------------------------------- state
VARIABLES
  backend,      \* "local" (file fallback) or "shared" (table), fixed by the environment
  orgEnv,       \* CIRCLES_ORG_AVATAR_ADDRESS
  inst,         \* the instance (process) each caller's requests run in
  rows,         \* the stored rounds, newest insertion first
  paidOnChain,  \* ids of the rounds whose qualifying transfer is on chain
  createRoundLocks, \* per instance: lock key -> the call holding the tail, 0 if none
  previous,     \* per caller: the call whose tail it awaits, 0 once resolved
  pc,           \* per caller: position in its handler
  fr,           \* per caller: the handler's local variables
  resolveCount, \* per round id: calls that went on to resolve the outcome
  payoutCount,  \* per round id: payoutSoloWinner invocations in the resolution path
  retryPayoutCount, \* per round id: payoutSoloWinner invocations in the retry path
  call,         \* a function applied on its own: its name, arguments and result
  chain         \* the clock, the creation time of each round, the transfers on chain

\* --------------------------------------------------------------- records
NoToken == 0
NoHash == 0
NoRetryCount == -1
NoStatusCode == 0
\* A timestamp that is not set.
NoTime == -1

NoResult == [coin |-> None, outcome |-> None]

NullRound == [id |-> 0]

\* A timestamp that is set (new Date().toISOString()).
Now == "now"

PendingPayout ==
  [status |-> "pending", txHash |-> None, error |-> None, retryCount |-> NoRetryCount,
   processedAt |-> None]

\* The round createSoloRound builds before it stores it.
NewRound(roundId, playerAddress, move) ==
  [id |-> roundId,
   playerAddress |-> playerAddress,
   move |-> move,
   status |-> "awaiting_payment",
   createdAt |-> chain.now,
   updatedAt |-> chain.now,
   payment |-> [status |-> "pending", transactionHash |-> NoHash, paidAt |-> NoTime],
   result |-> NoResult,
   payout |-> PendingPayout,
   processingToken |-> NoToken]

NoError == [status |-> NoStatusCode, cause |-> None, roundId |-> 0]

SoloGameError(statusCode, cause, roundId) ==
  [status |-> statusCode, cause |-> cause, roundId |-> roundId]

\* An error that is no SoloGameError carries no statusCode.
PlainError(cause) == [status |-> NoStatusCode, cause |-> cause, roundId |-> 0]

\* toErrorResponse: a SoloGameError answers with its statusCode, anything
\* else with 500.
toErrorResponse(error) == IF error.status # NoStatusCode THEN error.status ELSE 500

\* ---------------------------------------------------------------- amounts
\* A decimal amount is a sequence of characters; a bigint is the sequence of
\* its decimal digits without leading zeros.
MaxFractionLen == 3

Decimals == 18

DigitChars == {"0", "1", "2", "3", "4", "5", "6", "7", "8", "9"}

AllDigits(s) == \A i \in 1..Len(s) : s[i] \in DigitChars

\* The index of the first point of s, 0 if it has none.
PointIndex(s) ==
  IF \E i \in 1..Len(s) : s[i] = "."
  THEN CHOOSE i \in 1..Len(s) : s[i] = "." /\ \A j \in 1..(i - 1) : s[j] # "."
  ELSE 0

\* AMOUNT_PATTERN = /^(0|[1-9]\d*)(\.\d{1,18})?$/
MatchesAmountPattern(value) ==
  LET point == PointIndex(value)
      whole == IF point = 0 THEN value ELSE SubSeq(value, 1, point - 1)
      fraction == IF point = 0 THEN <<>> ELSE SubSeq(value, point + 1, Len(value))
  IN /\ whole # <<>> /\ AllDigits(whole)
     /\ whole = <<"0">> \/ Head(whole) # "0"
     /\ point # 0 => (Len(fraction) \in 1..Decimals /\ AllDigits(fraction))

RECURSIVE StripTrailingZeros(_)
StripTrailingZeros(s) ==
  IF s # <<>> /\ s[Len(s)] = "0" THEN StripTrailingZeros(SubSeq(s, 1, Len(s) - 1)) ELSE s

RECURSIVE StripLeadingZeros(_)
StripLeadingZeros(s) ==
  IF Len(s) > 1 /\ Head(s) = "0" THEN StripLeadingZeros(Tail(s)) ELSE s

Zeros(n) == [i \in 1..n |-> "0"]

\* BigInt(digits)
BigIntOf(digits) == StripLeadingZeros(digits)

\* Mutant of parseUnits: the fraction is not padded to the number of decimals.
parseUnits_Unpadded(value, decimals) ==
  LET point == PointIndex(value)
      integer == IF point = 0 THEN value ELSE SubSeq(value, 1, point - 1)
      fraction == IF point = 0 THEN <<"0">> ELSE SubSeq(value, point + 1, Len(value))
  IN BigIntOf(integer \o StripTrailingZeros(fraction))

\* parseUnits of the library, for a value of the pattern (no sign, at most
\* decimals fractional digits): the integer part followed by the fraction,
\* its trailing zeros dropped and then padded with zeros to decimals digits.
parseUnits(value, decimals) ==
  LET point == PointIndex(value)
      integer == IF point = 0 THEN value ELSE SubSeq(value, 1, point - 1)
      fraction == IF point = 0 THEN <<"0">> ELSE SubSeq(value, point + 1, Len(value))
      trimmed == StripTrailingZeros(fraction)
  IN BigIntOf(integer \o trimmed \o Zeros(decimals - Len(trimmed)))

\* formatUnits of the library, for a value that is not negative.
formatUnits(value, decimals) ==
  LET display == IF Len(value) < decimals THEN Zeros(decimals - Len(value)) \o value
                 ELSE value
      integer == SubSeq(display, 1, Len(display) - decimals)
      fraction == StripTrailingZeros(SubSeq(display, Len(display) - decimals + 1,
                                            Len(display)))
  IN (IF integer = <<>> THEN <<"0">> ELSE integer)
       \o (IF fraction = <<>> THEN <<>> ELSE <<".">> \o fraction)

\* No amount: the function threw.
NoAmount == <<>>

\* parseAmountToAtto of the game service: NoAmount when it throws.
parseAmountToAtto(value) ==
  IF ~MatchesAmountPattern(value) THEN NoAmount
  ELSE IF parseUnits(value, Decimals) = <<"0">> THEN NoAmount
  ELSE parseUnits(value, Decimals)

\* formatCrcAmount of the game service.
formatCrcAmount(valueAtto) ==
  LET amount == formatUnits(valueAtto, Decimals)
      point == PointIndex(amount)
      whole == IF point = 0 THEN amount ELSE SubSeq(amount, 1, point - 1)
      fraction == IF point = 0 THEN <<>> ELSE SubSeq(amount, point + 1, Len(amount))
      trimmedFraction == StripTrailingZeros(fraction)
  IN IF trimmedFraction # <<>> THEN whole \o <<".">> \o trimmedFraction ELSE whole

\* parseAmountToAtto of the payout module.
payoutParseAmountToAtto(amountCRC) ==
  IF ~MatchesAmountPattern(amountCRC) THEN NoAmount
  ELSE IF parseUnits(amountCRC, Decimals) = <<"0">> THEN NoAmount
  ELSE parseUnits(amountCRC, Decimals)

\* formatAmountFromAtto of the payout module.
formatAmountFromAtto(valueAtto) ==
  LET amount == formatUnits(valueAtto, Decimals)
      point == PointIndex(amount)
      whole == IF point = 0 THEN amount ELSE SubSeq(amount, 1, point - 1)
      fraction == IF point = 0 THEN <<>> ELSE SubSeq(amount, point + 1, Len(amount))
      trimmedFraction == StripTrailingZeros(fraction)
  IN IF trimmedFraction # <<>> THEN whole \o <<".">> \o trimmedFraction ELSE whole

\* The amounts tried: whole parts with and without leading zero, fractions of
\* up to MaxFractionLen digits, fractions of Decimals and of Decimals + 1
\* digits, and strings that are no amounts.
AmountDigits == {"0", "1", "9"}

AmountWholes == {<<"0">>, <<"1">>, <<"1", "0">>, <<"9", "0", "1">>, <<"0", "1">>, <<>>}

AmountFractions ==
  UNION {[1..n -> AmountDigits] : n \in 1..MaxFractionLen}
    \cup {Zeros(Decimals - 1) \o <<"1">>, <<"1">> \o Zeros(Decimals - 1),
          Zeros(Decimals), Zeros(Decimals) \o <<"1">>}

AmountInputs ==
  AmountWholes
    \cup {w \o <<".">> \o f : w \in AmountWholes, f \in AmountFractions}
    \cup {<<"1", ".">>, <<"1", ".", "1", ".", "1">>, <<"1", "e", "1">>, <<"-", "1">>}

\* ---------------------------------------------------------------- markers
\* A marker and a data field are sequences of characters.
MaxMarkerLen == 3

\* normalizeString of lib/circles
normalizeString(value) == ToLowerCase(Trim(value))

\* null where a string is expected
NullString == <<"null">>

StartsWith(s, prefix) == Len(s) >= Len(prefix) /\ SubSeq(s, 1, Len(prefix)) = prefix

Slice(s, n) == SubSeq(s, n + 1, Len(s))

\* /^[0-9a-f]+$/
LowerHexChars == {"0", "1", "2", "3", "4", "5", "6", "7", "8", "9", "a", "b", "c", "d", "e", "f"}

IsLowerHex(s) == s # <<>> /\ \A i \in 1..Len(s) : s[i] \in LowerHexChars

\* /^[0-9a-f]+$/i
IsHexIgnoringCase(s) ==
  s # <<>> /\ \A i \in 1..Len(s) : s[i] \in LowerHexChars \cup {"A", "B", "C", "D", "E", "F"}

\* The UTF-8 byte of a character, as two hex digits; "?" stands for every
\* character outside the table.
CharHex(ch) ==
  CASE ch = " " -> <<"2", "0">>
    [] ch = "0" -> <<"3", "0">>
    [] ch = "6" -> <<"3", "6">>
    [] ch = "A" -> <<"4", "1">>
    [] ch = "a" -> <<"6", "1">>
    [] ch = "x" -> <<"7", "8">>
    [] OTHER -> <<"3", "f">>

HexChar(pair) ==
  CASE pair = <<"2", "0">> -> " "
    [] pair = <<"3", "0">> -> "0"
    [] pair = <<"3", "6">> -> "6"
    [] pair = <<"4", "1">> -> "A"
    [] pair = <<"6", "1">> -> "a"
    [] pair = <<"7", "8">> -> "x"
    [] OTHER -> "?"

utf8ToHex(value) ==
  [i \in 1..(2 * Len(value)) |-> CharHex(value[(i + 1) \div 2])[((i - 1) % 2) + 1]]

hexToUtf8(hexValue) ==
  LET hex == IF StartsWith(hexValue, <<"0", "x">>) THEN Slice(hexValue, 2) ELSE hexValue
  IN IF hex = <<>> \/ Len(hex) % 2 # 0 \/ ~IsHexIgnoringCase(hex) THEN NullString
     ELSE [i \in 1..(Len(hex) \div 2) |->
             HexChar(<<LowerChar(hex[2 * i - 1]), LowerChar(hex[2 * i])>>)]

normalizeHex(value) ==
  LET trimmed == normalizeString(value)
  IN IF trimmed = <<>> THEN NullString
     ELSE IF StartsWith(trimmed, <<"\\", "x">>) THEN <<"0", "x">> \o Slice(trimmed, 2)
     ELSE IF StartsWith(trimmed, <<"0", "x">>) THEN trimmed
     ELSE IF IsLowerHex(trimmed) THEN <<"0", "x">> \o trimmed
     ELSE NullString

normalizeAddress(value) ==
  LET trimmed == normalizeString(value)
  IN IF trimmed = <<>> THEN NullString
     ELSE IF StartsWith(trimmed, <<"0", "x">>) THEN trimmed
     ELSE <<"0", "x">> \o trimmed

addressesMatch(a, b) ==
  /\ normalizeAddress(a) # NullString
  /\ normalizeAddress(b) # NullString
  /\ normalizeAddress(a) = normalizeAddress(b)

targetCandidates(target) ==
  {target, utf8ToHex(target), <<"0", "x">> \o utf8ToHex(target)}
    \cup (IF StartsWith(target, <<"0", "x">>) THEN {Slice(target, 2)} ELSE {})

\* Mutant of eventMatchesData: a hex data field is compared as hex only, it is
\* not decoded to text.
eventMatchesData_NoDecode(dataField, dataValue) ==
  LET target == normalizeString(dataValue)
      eventRaw == normalizeString(dataField)
      eventHex == normalizeHex(eventRaw)
  IN IF target = <<>> THEN FALSE
     ELSE IF eventRaw \in targetCandidates(target) THEN TRUE
     ELSE IF eventHex # NullString
     THEN \/ eventHex \in targetCandidates(target)
          \/ Slice(eventHex, 2) \in targetCandidates(target)
     ELSE FALSE

eventMatchesData(dataField, dataValue) ==
  LET target == normalizeString(dataValue)
      eventRaw == normalizeString(dataField)
      eventHex == normalizeHex(eventRaw)
      eventUtf8 == hexToUtf8(eventHex)
  IN IF target = <<>> THEN FALSE
     ELSE IF eventRaw \in targetCandidates(target) THEN TRUE
     ELSE IF eventHex # NullString
     THEN \/ eventHex \in targetCandidates(target)
          \/ Slice(eventHex, 2) \in targetCandidates(target)
          \/ /\ eventUtf8 # NullString /\ eventUtf8 # <<>>
             /\ normalizeString(eventUtf8) \in targetCandidates(target)
     ELSE FALSE

isTransferEventMatch(event, dataValue, recipientAddress) ==
  LET normalizedRecipient == normalizeAddress(recipientAddress)
  IN IF normalizedRecipient # NullString /\ ~addressesMatch(event.to, normalizedRecipient)
     THEN FALSE
     ELSE IF event.data = <<>> THEN FALSE
     ELSE eventMatchesData(event.data, dataValue)

\* The markers tried: every string of up to MaxMarkerLen characters over
\* letters of both cases, the blank, and the characters of a hex prefix.
MarkerChars == {"a", "A", " ", "0", "x", "6"}

Markers == UNION {[1..n -> MarkerChars] : n \in 0..MaxMarkerLen}

\* The three ways a transfer carries a marker in its data field.
Encodings == {"raw", "hex", "0xhex"}

Encoded(marker, encoding) ==
  CASE encoding = "raw" -> marker
    [] encoding = "hex" -> utf8ToHex(marker)
    [] OTHER -> <<"0", "x">> \o utf8ToHex(marker)

\* ---------------------------------------------------------------- history
MaxScannedPages == 5

\* buildMoveData: the marker of a round.
buildMoveData(roundId, move, playerAddress) ==
  <<"solo-move:", ToString(roundId), ":", move, ":">> \o ToLowerCase(playerAddress)

\* toUnixSeconds of an ISO time, given by its milliseconds when it parses.
toUnixSeconds(value) == IF ~value.valid THEN 0 ELSE value.ms \div 1000

\* The events field of a history row: absent, an array, a JSON text of an
\* array, or a text that is no JSON.
RawEvents(kind, events) == [kind |-> kind, events |-> events]

parseTransactionEvents(rawEvents) ==
  IF rawEvents.kind \in {"array", "json"} THEN rawEvents.events ELSE <<>>

transferDataMatchState(rawEvents, expectedData) ==
  LET events == parseTransactionEvents(rawEvents)
      IsTransferData(event) == Trim(<<event.type>>) = <<"CrcV2_TransferData">>
      transferDataEvents == SelectSeq(events, IsTransferData)
  IN IF transferDataEvents = <<>> THEN "missing"
     ELSE IF \E i \in 1..Len(transferDataEvents) :
               eventMatchesData(transferDataEvents[i].data, expectedData)
     THEN "match"
     ELSE "mismatch"

\* The checks of the scan on one row: TRUE when the row is returned.
HistoryRowQualifies(row, params) ==
  LET from == ToLowerCase(row.from)
      to == ToLowerCase(row.to)
  IN IF row.transactionHash = "" \/ from # ToLowerCase(params.playerAddress)
          \/ to # ToLowerCase(params.recipientAddress)
     THEN FALSE
     ELSE IF row.timestamp < toUnixSeconds(params.createdAtIso)
               \/ row.attoCircles < params.minAmountAtto
     THEN FALSE
     ELSE IF params.expectedData # <<>>
               /\ transferDataMatchState(row.events, params.expectedData) = "mismatch"
     THEN FALSE
     ELSE TRUE

\* The index of the first row of the page that is returned, 0 if none is.
FirstQualifying(rows_, params) ==
  IF \E i \in 1..Len(rows_) : HistoryRowQualifies(rows_[i], params)
  THEN CHOOSE i \in 1..Len(rows_) :
         /\ HistoryRowQualifies(rows_[i], params)
         /\ \A j \in 1..(i - 1) : ~HistoryRowQualifies(rows_[j], params)
  ELSE 0

\* The round the scan is made for, and what the history can hold.
HistoryPlayer == <<"a">>
HistoryRecipient == <<"B", "b">>
HistoryCreatedAt == [valid |-> TRUE, ms |-> 5999]

HistoryEvents ==
  {RawEvents("undefined", <<>>),
   RawEvents("array", <<>>),
   RawEvents("text", <<>>),
   RawEvents("array", <<[type |-> "CrcV2_TransferSingle",
                         data |-> buildMoveData(1, "heads", HistoryPlayer)]>>),
   RawEvents("json", <<[type |-> "CrcV2_TransferData",
                        data |-> buildMoveData(1, "heads", HistoryPlayer)]>>),
   RawEvents("array", <<[type |-> "CrcV2_TransferData",
                         data |-> buildMoveData(2, "heads", HistoryPlayer)]>>),
   RawEvents("array", <<[type |-> "CrcV2_TransferData",
                         data |-> buildMoveData(2, "heads", HistoryPlayer)],
                        [type |-> "CrcV2_TransferData",
                         data |-> buildMoveData(1, "heads", HistoryPlayer)]>>)}

HistoryRow(from, to, transactionHash, timestamp, attoCircles, events) ==
  [from |-> from, to |-> to, transactionHash |-> transactionHash,
   timestamp |-> timestamp, attoCircles |-> attoCircles, events |-> events]

\* A row that passes the checks of direction, hash, time and amount, and
\* the rows that fail exactly one of them, each with every events field.
HistoryRows ==
  {HistoryRow(v[1], v[2], v[3], v[4], v[5], ev) :
     v \in {<<<<"A">>, <<"b", "B">>, "0xh", 5, 2>>,
            <<<<"b">>, <<"b", "B">>, "0xh", 5, 2>>,
            <<<<"A">>, <<"a">>, "0xh", 5, 2>>,
            <<<<"A">>, <<"b", "B">>, "", 5, 2>>,
            <<<<"A">>, <<"b", "B">>, "0xh", 4, 2>>,
            <<<<"A">>, <<"b", "B">>, "0xh", 5, 1>>},
     ev \in HistoryEvents}

\* The rows that come second on a page.
HistoryRowsAfter ==
  {HistoryRow(<<"a">>, <<"b", "b">>, "0xg", 6, 3, ev) :
     ev \in {RawEvents("undefined", <<>>),
             RawEvents("array", <<[type |-> "CrcV2_TransferData",
                                   data |-> buildMoveData(1, "heads", HistoryPlayer)]>>),
             RawEvents("array", <<[type |-> "CrcV2_TransferData",
                                   data |-> buildMoveData(2, "heads", HistoryPlayer)]>>)}}

\* The pages queryNextPage can deliver: one row, or two.
HistoryPages ==
  {[results |-> rs, hasMore |-> more] :
     rs \in {<<r>> : r \in HistoryRows}
              \cup {<<r, q>> : r \in HistoryRowsAfter
                                     \cup {HistoryRow(<<"b">>, <<"a">>, "0xh", 4, 1,
                                                      RawEvents("undefined", <<>>))},
                               q \in HistoryRowsAfter},
     more \in BOOLEAN}

NoHistoryRow == HistoryRow(<<>>, <<>>, "", 0, 0, RawEvents("undefined", <<>>))

\* query.currentPage before the first page is fetched.
NoHistoryPage == [results |-> <<>>, hasMore |-> TRUE]

\* ---------------------------------------------------------- initial state
vars == <<backend, orgEnv, inst, rows, paidOnChain, createRoundLocks, previous, pc, fr,
          resolveCount, payoutCount, retryPayoutCount, call, chain>>

\* Time and transfers are not looked at.
NoChain == [now |-> 0, createdAt |-> <<>>, transfers |-> {}]

\* No function is applied on its own.
NoCall == [fn |-> None, done |-> FALSE]

LockKeys == {normalizeAddressKey(p) : p \in {q \in PlayerInputs : isAddress(q)}}

IdleFrame ==
  [op |-> None, playerAddress |-> <<>>, move |-> None, rid |-> 0,
   round |-> NullRound, read |-> NullRound, next |-> NullRound, payment |-> NoHash, claimToken |-> NoToken,
   outcome |-> None, coin |-> None, payout |-> PendingPayout,
   ret |-> NullRound, error |-> NoError]

Init ==
  /\ backend \in {"local", "shared"}
  /\ orgEnv \in OrgInputs
  \* the file fallback serves one process only; the table serves callers of
  \* one instance or of several
  /\ inst \in IF backend = "local" THEN {[c \in Callers |-> "i1"]}
              ELSE {[c \in Callers |-> "i1"],
                    [c \in Callers |-> IF c = 1 THEN "i1" ELSE "i2"]}
  /\ rows = <<>>
  /\ paidOnChain = {}
  /\ createRoundLocks = [i \in Instances |-> [k \in LockKeys |-> 0]]
  /\ previous = [c \in Callers |-> 0]
  /\ pc = [c \in Callers |-> "idle"]
  /\ fr = [c \in Callers |-> IdleFrame]
  /\ resolveCount = [r \in RoundIds |-> 0]
  /\ payoutCount = [r \in RoundIds |-> 0]
  /\ retryPayoutCount = [r \in RoundIds |-> 0]
  /\ call = NoCall
  /\ chain = NoChain

\* ----------------------------------------------------------------- store
RowIndex(rs, roundId) ==
  IF \E i \in 1..Len(rs) : rs[i].id = roundId
  THEN CHOOSE i \in 1..Len(rs) : rs[i].id = roundId
  ELSE 0

getSoloRound(rs, roundId) ==
  IF RowIndex(rs, roundId) = 0 THEN NullRound ELSE rs[RowIndex(rs, roundId)]

\* The first stored round of the player whose status is not completed.
findActiveSoloRoundByPlayer(rs, playerAddress) ==
  LET hits == {i \in 1..Len(rs) :
                 matchesPlayer(rs[i], playerAddress) /\ rs[i].status # "completed"}
  IN IF hits = {} THEN NullRound
     ELSE rs[CHOOSE i \in hits : \A j \in hits : i <= j]

\* solo_rounds_one_active_per_player_idx: unique on lower(playerAddress)
\* over the rows whose status is not completed.
UniqueIndexHolds(rs) ==
  \A i, j \in 1..Len(rs) :
    (i # j /\ rs[i].status # "completed" /\ rs[j].status # "completed")
      => ToLowerCase(rs[i].playerAddress) # ToLowerCase(rs[j].playerAddress)

\* rounds.unshift(round) on the file, insert(row) on the table.
InsertRow(rs, round) == <<round>> \o rs

ReplaceRow(rs, round) ==
  [i \in 1..Len(rs) |-> IF rs[i].id = round.id THEN round ELSE rs[i]]

\* Mutant of createSoloRoundRecord: the row is stored although the insert is
\* reported as failed.
createSoloRoundRecord_StoresOnError(be, rs, round) ==
  [rows |-> InsertRow(rs, round),
   error |-> IF be = "local" \/ UniqueIndexHolds(InsertRow(rs, round))
             THEN NoError ELSE PlainError("Supabase create round failed")]

\* createSoloRoundRecord: the stored rows after the call and the error it
\* raises (NoError on success).  The file fallback inserts unconditionally;
\* the table rejects a row that breaks the unique index, and the rejection
\* is raised as a plain Error.
createSoloRoundRecord(be, rs, round) ==
  IF be = "local"
  THEN [rows |-> InsertRow(rs, round), error |-> NoError]
  ELSE IF UniqueIndexHolds(InsertRow(rs, round))
       THEN [rows |-> InsertRow(rs, round), error |-> NoError]
       ELSE [rows |-> rs, error |-> PlainError("Supabase create round failed")]

\* ------------------------------------------------- per-player creation lock
\* release(): the gate resolves, so every call awaiting this call's tail goes on.
ReleasedPrevious(c) ==
  [w \in DOMAIN previous |-> IF previous[w] = c THEN 0 ELSE previous[w]]

\* if (createRoundLocks.get(key) === tail) createRoundLocks.delete(key)
\* Mutant of ReleasedLocks: the entry is deleted whoever's tail it holds.
ReleasedLocks_AlwaysDelete(c, key) ==
  [createRoundLocks EXCEPT ![inst[c]][key] = 0]

ReleasedLocks(c, key) ==
  IF createRoundLocks[inst[c]][key] = c
  THEN [createRoundLocks EXCEPT ![inst[c]][key] = 0]
  ELSE createRoundLocks

\* The call ends with a round (or null) or with an error; its other locals
\* are dropped.
Returned(f, round) ==
  [IdleFrame EXCEPT !.op = f.op, !.playerAddress = f.playerAddress, !.rid = f.rid,
                    !.ret = round]

Thrown(f, error) ==
  [IdleFrame EXCEPT !.op = f.op, !.playerAddress = f.playerAddress, !.rid = f.rid,
                    !.error = error]

Saturate(n) == IF n < MaxCount THEN n + 1 ELSE n

\* ---------------------------------------------------------- createSoloRound
InFlightCreates == Cardinality({c \in Callers : pc[c] # "idle" /\ fr[c].op = "create"})

UsedRoundIds ==
  {rows[i].id : i \in 1..Len(rows)} \cup {fr[c].round.id : c \in Callers}

FreshRoundId == CHOOSE r \in RoundIds \ UsedRoundIds : \A q \in RoundIds \ UsedRoundIds : r <= q

\* The checks before the lock, then the registration in the lock chain.  At
\* most limit rounds are ever stored.
StartCreateUpTo(limit, c, playerAddress, move) ==
  /\ pc[c] = "idle"
  /\ Len(rows) + InFlightCreates < limit
  /\ LET orgAddress == Trim(orgEnv)
         f == [IdleFrame EXCEPT !.op = "create", !.playerAddress = playerAddress,
                                !.move = move]
         key == normalizeAddressKey(playerAddress)
     IN IF orgAddress = <<>> \/ ~isAddress(orgAddress)
        THEN /\ fr' = [fr EXCEPT ![c] = Thrown(f, SoloGameError(400, "org_address", 0))]
             /\ pc' = [pc EXCEPT ![c] = "returned"]
             /\ UNCHANGED <<previous, createRoundLocks>>
        ELSE IF ~isAddress(playerAddress)
        THEN /\ fr' = [fr EXCEPT ![c] = Thrown(f, SoloGameError(400, "player_address", 0))]
             /\ pc' = [pc EXCEPT ![c] = "returned"]
             /\ UNCHANGED <<previous, createRoundLocks>>
        ELSE /\ fr' = [fr EXCEPT ![c] = f]
             /\ previous' = [previous EXCEPT ![c] = createRoundLocks[inst[c]][key]]
             /\ createRoundLocks' = [createRoundLocks EXCEPT ![inst[c]][key] = c]
             /\ pc' = [pc EXCEPT ![c] = "lock_wait"]
  /\ UNCHANGED <<chain, call, backend, orgEnv, inst, rows, paidOnChain,
                 resolveCount, payoutCount, retryPayoutCount>>

StartCreate(c, playerAddress, move) == StartCreateUpTo(MaxRounds, c, playerAddress, move)

\* The task fails: the error leaves through the finally block of the lock.
CreateFails(c, error) ==
  /\ fr' = [fr EXCEPT ![c] = Thrown(fr[c], error)]
  /\ pc' = [pc EXCEPT ![c] = "returned"]
  /\ previous' = ReleasedPrevious(c)
  /\ createRoundLocks' = ReleasedLocks(c, normalizeAddressKey(fr[c].playerAddress))

\* Mutant of CreateFindActive: a resolving round does not refuse the call.
CreateFindActive_ResolvingPasses(c) ==
  /\ pc[c] = "lock_wait"
  /\ previous[c] = 0
  /\ LET activeRound == findActiveSoloRoundByPlayer(rows, fr[c].playerAddress)
     IN IF activeRound # NullRound /\ activeRound.status # "resolving"
        THEN CreateFails(c, SoloGameError(409, "active_round", activeRound.id))
        ELSE /\ pc' = [pc EXCEPT ![c] = "preflight"]
             /\ UNCHANGED <<fr, previous, createRoundLocks>>
  /\ UNCHANGED <<chain, call, backend, orgEnv, inst, rows, paidOnChain,
                 resolveCount, payoutCount, retryPayoutCount>>

\* The previous tail has resolved: the task starts and looks for an active round.
CreateFindActive(c) ==
  /\ pc[c] = "lock_wait"
  /\ previous[c] = 0
  /\ LET activeRound == findActiveSoloRoundByPlayer(rows, fr[c].playerAddress)
     IN IF activeRound # NullRound
        THEN CreateFails(c, SoloGameError(409, "active_round", activeRound.id))
        ELSE /\ pc' = [pc EXCEPT ![c] = "preflight"]
             /\ UNCHANGED <<fr, previous, createRoundLocks>>
  /\ UNCHANGED <<chain, call, backend, orgEnv, inst, rows, paidOnChain,
                 resolveCount, payoutCount, retryPayoutCount>>

\* ensurePlayerCanPayEntryFee: passes, or raises a SoloGameError(400) (no
\* avatar, no path, or a pathfinder error wrapped into one).
CreatePreflight(c) ==
  /\ pc[c] = "preflight"
  /\ \/ /\ pc' = [pc EXCEPT ![c] = "build"]
        /\ UNCHANGED <<fr, previous, createRoundLocks>>
     \/ \E cause \in {"preflight_rejected", "pathfinder_error"} :
          CreateFails(c, SoloGameError(400, cause, 0))
  /\ UNCHANGED <<chain, call, backend, orgEnv, inst, rows, paidOnChain,
                 resolveCount, payoutCount, retryPayoutCount>>

\* randomUUID, then buildMiniappCompatiblePayment: the round is assembled,
\* or the construction failure is raised as a SoloGameError(400).
CreateBuild(c) ==
  /\ pc[c] = "build"
  /\ \/ /\ fr' = [fr EXCEPT ![c].round =
                    NewRound(FreshRoundId, fr[c].playerAddress, fr[c].move)]
        /\ pc' = [pc EXCEPT ![c] = "insert"]
        /\ UNCHANGED <<previous, createRoundLocks>>
     \/ CreateFails(c, SoloGameError(400, "payment_construction", 0))
  /\ UNCHANGED <<chain, call, backend, orgEnv, inst, rows, paidOnChain,
                 resolveCount, payoutCount, retryPayoutCount>>

\* createSoloRoundRecord and the catch around it: only a
\* SoloStoreConflictError becomes a 409, any other error is rethrown as it is.
CreateInsert(c) ==
  /\ pc[c] = "insert"
  /\ LET res == createSoloRoundRecord(backend, rows, fr[c].round)
     IN /\ rows' = res.rows
        /\ IF res.error = NoError
           THEN /\ fr' = [fr EXCEPT ![c] = Returned(fr[c], fr[c].round)]
                /\ pc' = [pc EXCEPT ![c] = "returned"]
                /\ previous' = ReleasedPrevious(c)
                /\ createRoundLocks' =
                     ReleasedLocks(c, normalizeAddressKey(fr[c].playerAddress))
           ELSE IF res.error.cause = "SoloStoreConflictError"
           THEN CreateFails(c, SoloGameError(409, "active_round",
                   findActiveSoloRoundByPlayer(rows, fr[c].playerAddress).id))
           ELSE CreateFails(c, res.error)
  /\ UNCHANGED <<chain, call, backend, orgEnv, inst, paidOnChain,
                 resolveCount, payoutCount, retryPayoutCount>>

\* ----------------------------------------------------------------- payout
\* The error texts a failed payout can carry.
PayoutErrorTexts ==
  {"Direct transfer failed", "Execution reverted for an unknown reason.", "insufficient funds"}

\* payoutError.toLowerCase().includes(needle), for the texts above.
LowerIncludes(text, needle) ==
  \/ needle = "direct transfer" /\ text = "Direct transfer failed"
  \/ /\ needle = "execution reverted for an unknown reason"
     /\ text = "Execution reverted for an unknown reason."

\* The values of CIRCLES_ORG_PRIVATE_KEY: unset, no 32-byte hex string, a key.
KeyInputs == {"", "zz", "0xkey"}

ValidPrivateKey(rawKey) == rawKey = "0xkey"

\* What the wallet, the SDK and the chain do with the transfer: something
\* is thrown (an Error with a message, or a value that is no Error), or a
\* receipt comes back that names the transaction in one of two fields.
Throws(message) ==
  [kind |-> "throws", message |-> message, transactionHash |-> None, hash |-> None]

Receipt(transactionHash, hash) ==
  [kind |-> "receipt", message |-> None, transactionHash |-> transactionHash,
   hash |-> hash]

PayoutAttempts ==
  {Throws(m) : m \in PayoutErrorTexts \cup {None}}
    \cup {Receipt("0xpayout", None), Receipt(None, "0xpayout")}

FailedPayout(error) ==
  [status |-> "failed", txHash |-> None, error |-> error, retryCount |-> NoRetryCount,
   processedAt |-> Now]

\* payoutSoloWinner: the payout record it returns.
payoutSoloWinner(orgAvatarAddress, privateKeyRaw, winnerAddress, attempt) ==
  IF orgAvatarAddress = <<>> \/ privateKeyRaw = ""
  THEN [status |-> "skipped", txHash |-> None,
        error |-> "Missing CIRCLES_ORG_AVATAR_ADDRESS or CIRCLES_ORG_PRIVATE_KEY",
        retryCount |-> NoRetryCount, processedAt |-> Now]
  ELSE IF ~isAddress(orgAvatarAddress)
  THEN FailedPayout("CIRCLES_ORG_AVATAR_ADDRESS is invalid")
  ELSE IF ~isAddress(winnerAddress)
  THEN FailedPayout("Winner address is invalid")
  ELSE IF ~ValidPrivateKey(privateKeyRaw)
  THEN FailedPayout("CIRCLES_ORG_PRIVATE_KEY must be a 32-byte hex string")
  ELSE IF attempt.kind = "throws"
  THEN FailedPayout(IF attempt.message = None THEN "Unknown payout failure"
                    ELSE attempt.message)
  ELSE [status |-> "paid",
        txHash |-> IF attempt.transactionHash # None THEN attempt.transactionHash
                   ELSE attempt.hash,
        error |-> None, retryCount |-> NoRetryCount, processedAt |-> Now]

\* What payoutSoloWinner returns to the lifecycle, where the organisation
\* address passed the check of createSoloRound and the winner is the round's
\* player: skipped without a key, failed with the error text, or paid.
PayoutResults ==
  {payoutSoloWinner(<<"B", "b">>, key, <<"a">>, attempt) :
     key \in {"", "0xkey"},
     attempt \in {Throws(m) : m \in PayoutErrorTexts} \cup {Receipt("0xpayout", None)}}

\* Mutant of LostPayout: the status of the payout is left as claimed.
LostPayout_StatusKept(payout) ==
  [payout EXCEPT !.error = "Round lost. No payout."]

LostPayout(payout) ==
  [payout EXCEPT !.status = "skipped", !.error = "Round lost. No payout.",
                 !.processedAt = Now]

\* Mutant of shouldRetryLegacyPayout: the retry counter is not looked at.
shouldRetryLegacyPayout_IgnoresCount(round) ==
  /\ round.status = "completed" /\ round.result.outcome = "win"
  /\ round.payout.status = "failed" /\ round.payout.txHash = None
  /\ \/ LowerIncludes(round.payout.error, "direct transfer")
     \/ LowerIncludes(round.payout.error, "execution reverted for an unknown reason")

shouldRetryLegacyPayout(round) ==
  IF round.status # "completed" \/ round.result.outcome # "win" THEN FALSE
  ELSE IF round.payout.status # "failed" \/ round.payout.txHash # None THEN FALSE
  ELSE IF (IF round.payout.retryCount = NoRetryCount THEN 0 ELSE round.payout.retryCount) >= 1
  THEN FALSE
  ELSE \/ LowerIncludes(round.payout.error, "direct transfer")
       \/ LowerIncludes(round.payout.error, "execution reverted for an unknown reason")

\* --------------------------------------------------------------- updaters
\* Mutant of ClaimUpdater: the payment sub-record is left as it was.
ClaimUpdater_PaymentKept(round, claimToken, payment) ==
  IF round.status # "awaiting_payment" THEN round
  ELSE [round EXCEPT !.status = "resolving",
                     !.updatedAt = chain.now,
                     !.processingToken = claimToken,
                     !.payout = [round.payout EXCEPT !.status = "processing",
                                                     !.processedAt = Now]]

\* The updater of the claim: only an awaiting_payment round is claimed.
ClaimUpdater(round, claimToken, payment) ==
  IF round.status # "awaiting_payment" THEN round
  ELSE [round EXCEPT !.status = "resolving",
                     !.updatedAt = chain.now,
                     !.processingToken = claimToken,
                     !.payment = [status |-> "paid", transactionHash |-> payment,
                                  paidAt |-> chain.now],
                     !.payout = [round.payout EXCEPT !.status = "processing",
                                                     !.processedAt = Now]]

\* Mutant of FinalizeUpdater: the claim token is not cleared.
FinalizeUpdater_TokenKept(round, claimToken, coin, outcome, payout) ==
  IF round.processingToken # claimToken THEN round
  ELSE [round EXCEPT !.status = "completed",
                     !.updatedAt = chain.now,
                     !.result = [coin |-> coin, outcome |-> outcome],
                     !.payout = payout]

\* The updater of the final write: only the owner of the claim finalizes.
FinalizeUpdater(round, claimToken, coin, outcome, payout) ==
  IF round.processingToken # claimToken THEN round
  ELSE [round EXCEPT !.status = "completed",
                     !.updatedAt = chain.now,
                     !.processingToken = NoToken,
                     !.result = [coin |-> coin, outcome |-> outcome],
                     !.payout = payout]

\* The updater of the legacy retry.
RetryUpdater(round, payout) ==
  IF ~shouldRetryLegacyPayout(round) THEN round
  ELSE [round EXCEPT !.updatedAt = chain.now, !.payout =
          [payout EXCEPT !.retryCount =
             (IF round.payout.retryCount = NoRetryCount THEN 0
              ELSE round.payout.retryCount) + 1]]

\* The updater a call passes to updateSoloRound at position kind.
Updater(kind, f, round) ==
  CASE kind = "claim" -> ClaimUpdater(round, f.claimToken, f.payment)
    [] kind = "finalize" ->
         FinalizeUpdater(round, f.claimToken, f.coin, f.outcome, f.payout)
    [] OTHER -> RetryUpdater(round, f.payout)

\* ------------------------------------------------------- updateSoloRound
\* The file fallback: the read, the updater and the write run as one task of
\* the write queue.
updateLocalRound(rs, roundId, kind, f) ==
  LET current == getSoloRound(rs, roundId)
  IN IF current = NullRound
     THEN [rows |-> rs, data |-> NullRound]
     ELSE [rows |-> ReplaceRow(rs, Updater(kind, f, current)),
           data |-> Updater(kind, f, current)]

\* The table, first request: the row read, and the round to store computed
\* from it by the updater.
updateSoloRoundRead(rs, roundId, kind, f) ==
  LET current == getSoloRound(rs, roundId)
  IN [current |-> current,
      roundToStore |-> IF current = NullRound THEN NullRound
                       ELSE Updater(kind, f, current)]

\* The table, second request: store the computed round over whatever the row
\* holds by then and return the stored row; an update that breaks the unique
\* index is rejected and raised as a plain Error.
updateSoloRoundWrite(rs, roundToStore) ==
  IF RowIndex(rs, roundToStore.id) = 0
  THEN [rows |-> rs, data |-> NullRound, error |-> NoError]
  ELSE IF ~UniqueIndexHolds(ReplaceRow(rs, roundToStore))
  THEN [rows |-> rs, data |-> NullRound,
        error |-> PlainError("Supabase update round failed")]
  ELSE [rows |-> ReplaceRow(rs, roundToStore), data |-> roundToStore, error |-> NoError]

\* ------------------------------------------------ processSoloRoundLifecycle
DrawRange == 10

\* randomInt(0, 10): the lower end included, the upper end excluded.
DrawValues == 0..(DrawRange - 1)

\* Mutant of IsWin: the winning value is 1.
IsWin_One(draw) == draw = 1

IsWin(draw) == draw = 0

OutcomeOf(draw) == IF IsWin(draw) THEN "win" ELSE "lose"

\* Mutant of CoinOf: the coin always shows the chosen move.
CoinOf_AlwaysMove(draw, move) == move

CoinOf(draw, move) ==
  IF IsWin(draw) THEN move ELSE IF move = "heads" THEN "tails" ELSE "heads"

UsedTokens ==
  {rows[i].processingToken : i \in 1..Len(rows)}
    \cup {fr[c].claimToken : c \in Callers}
    \cup {fr[c].next.processingToken : c \in {d \in Callers : fr[d].next # NullRound}}

\* randomUUID: a token no round and no call holds.
FreshToken == CHOOSE t \in Tokens \ UsedTokens : \A u \in Tokens \ UsedTokens : t <= u

ProcessReturns(c, f, round) ==
  /\ fr' = [fr EXCEPT ![c] = Returned(f, round)]
  /\ pc' = [pc EXCEPT ![c] = "returned"]

ProcessThrows(c, f, error) ==
  /\ fr' = [fr EXCEPT ![c] = Thrown(f, error)]
  /\ pc' = [pc EXCEPT ![c] = "returned"]

\* Mutant of ProcessStart: a resolving round goes on to payment detection.
ProcessStart_ResolvingDetects(c, roundId) ==
  /\ pc[c] = "idle"
  /\ LET current == getSoloRound(rows, roundId)
         f == [IdleFrame EXCEPT !.op = "process", !.rid = roundId, !.round = current]
     IN IF current = NullRound THEN ProcessReturns(c, f, NullRound)
        ELSE IF current.status = "completed"
        THEN IF ~shouldRetryLegacyPayout(current)
             THEN ProcessReturns(c, f, current)
             ELSE /\ fr' = [fr EXCEPT ![c] = f]
                  /\ pc' = [pc EXCEPT ![c] = "retry_payout"]
        ELSE /\ fr' = [fr EXCEPT ![c] = f]
             /\ pc' = [pc EXCEPT ![c] = "check_event"]
  /\ UNCHANGED <<chain, call, backend, orgEnv, inst, rows, paidOnChain, createRoundLocks, previous,
                 resolveCount, payoutCount, retryPayoutCount>>

\* getSoloRound and the dispatch on the status read.
ProcessStart(c, roundId) ==
  /\ pc[c] = "idle"
  /\ LET current == getSoloRound(rows, roundId)
         f == [IdleFrame EXCEPT !.op = "process", !.rid = roundId, !.round = current]
     IN IF current = NullRound THEN ProcessReturns(c, f, NullRound)
        ELSE IF current.status = "completed"
        THEN IF ~shouldRetryLegacyPayout(current)
             THEN ProcessReturns(c, f, current)
             ELSE /\ fr' = [fr EXCEPT ![c] = f]
                  /\ pc' = [pc EXCEPT ![c] = "retry_payout"]
        ELSE IF current.status = "resolving" THEN ProcessReturns(c, f, current)
        ELSE /\ fr' = [fr EXCEPT ![c] = f]
             /\ pc' = [pc EXCEPT ![c] = "check_event"]
  /\ UNCHANGED <<chain, call, backend, orgEnv, inst, rows, paidOnChain, createRoundLocks, previous,
                 resolveCount, payoutCount, retryPayoutCount>>

\* What a detection query can do: return a matching transfer, return
\* nothing, or fail.
QueryFound(hash) == [kind |-> "found", payment |-> hash]
QueryNone == [kind |-> "none", payment |-> NoHash]
QueryThrows == [kind |-> "throws", payment |-> NoHash]

\* Mutant of Caught: a failing query is raised to the caller.
Caught_Rethrows(outcome) ==
  [payment |-> outcome.payment,
   error |-> IF outcome.kind = "throws" THEN PlainError("rpc_failure") ELSE NoError]

\* try { payment = await query } catch { payment = null }
Caught(outcome) ==
  [payment |-> IF outcome.kind = "found" THEN outcome.payment ELSE NoHash,
   error |-> NoError]

\* Mutant of ProcessEvent: the history is queried after the event feed
\* whatever the feed returned.
ProcessEvent_AlwaysHistory(c, outcome) ==
  /\ pc[c] = "check_event"
  /\ LET res == Caught(outcome)
     IN /\ fr' = [fr EXCEPT ![c].payment = res.payment]
        /\ pc' = [pc EXCEPT ![c] = "check_history"]
  /\ UNCHANGED <<chain, call, backend, orgEnv, inst, rows, paidOnChain, createRoundLocks, previous,
                 resolveCount, payoutCount, retryPayoutCount>>

\* checkPaymentReceived inside its try/catch, then the branch on payment.
ProcessEvent(c, outcome) ==
  /\ pc[c] = "check_event"
  /\ LET res == Caught(outcome)
     IN IF res.error # NoError THEN ProcessThrows(c, fr[c], res.error)
        ELSE IF res.payment # NoHash
        THEN /\ fr' = [fr EXCEPT ![c].payment = res.payment]
             /\ pc' = [pc EXCEPT ![c] = "claim"]
        ELSE /\ pc' = [pc EXCEPT ![c] = "check_history"]
             /\ UNCHANGED fr
  /\ UNCHANGED <<chain, call, backend, orgEnv, inst, rows, paidOnChain, createRoundLocks, previous,
                 resolveCount, payoutCount, retryPayoutCount>>

\* The feed holds the matching event.
ProcessEventFound(c) ==
  /\ fr[c].rid \in paidOnChain
  /\ ProcessEvent(c, QueryFound(fr[c].rid))

\* The feed holds no matching event (yet), or the query fails.
ProcessEventMissing(c) ==
  \E outcome \in {QueryNone, QueryThrows} : ProcessEvent(c, outcome)

\* Mutant of ProcessHistory: a call that found no payment returns null.
ProcessHistory_ReturnsNull(c, outcome) ==
  /\ pc[c] = "check_history"
  /\ LET res == Caught(outcome)
     IN IF res.payment # NoHash
        THEN /\ fr' = [fr EXCEPT ![c].payment = res.payment]
             /\ pc' = [pc EXCEPT ![c] = "claim"]
        ELSE ProcessReturns(c, fr[c], NullRound)
  /\ UNCHANGED <<chain, call, backend, orgEnv, inst, rows, paidOnChain, createRoundLocks, previous,
                 resolveCount, payoutCount, retryPayoutCount>>

\* findPaymentFromTransferHistory inside its try/catch, then the branch on
\* payment: without a payment the call returns the round it read.
ProcessHistory(c, outcome) ==
  /\ pc[c] = "check_history"
  /\ LET res == Caught(outcome)
     IN IF res.error # NoError THEN ProcessThrows(c, fr[c], res.error)
        ELSE IF res.payment # NoHash
        THEN /\ fr' = [fr EXCEPT ![c].payment = res.payment]
             /\ pc' = [pc EXCEPT ![c] = "claim"]
        ELSE ProcessReturns(c, fr[c], fr[c].round)
  /\ UNCHANGED <<chain, call, backend, orgEnv, inst, rows, paidOnChain, createRoundLocks, previous,
                 resolveCount, payoutCount, retryPayoutCount>>

\* The history holds a qualifying row.
ProcessHistoryFound(c) ==
  /\ fr[c].rid \in paidOnChain
  /\ ProcessHistory(c, QueryFound(fr[c].rid))

\* The history holds no qualifying row, or the query fails.
ProcessHistoryMissing(c) ==
  \E outcome \in {QueryNone, QueryThrows} : ProcessHistory(c, outcome)

\* Mutant of AfterClaim: the token of the returned round is not compared.
AfterClaim_AnyToken(c, f, claimed) ==
  IF claimed = NullRound
  THEN ProcessReturns(c, f, NullRound) /\ UNCHANGED resolveCount
  ELSE \E draw \in DrawValues :
         /\ resolveCount' = [resolveCount EXCEPT ![f.rid] = Saturate(@)]
         /\ fr' = [fr EXCEPT ![c] =
              [f EXCEPT !.round = claimed, !.read = NullRound, !.next = NullRound,
                        !.outcome = OutcomeOf(draw), !.coin = CoinOf(draw, claimed.move),
                        !.payout = IF IsWin(draw) THEN claimed.payout
                                   ELSE LostPayout(claimed.payout)]]
         /\ pc' = [pc EXCEPT ![c] = IF IsWin(draw) THEN "payout" ELSE "finalize"]

\* After the claim update: null, a lost race, or the draw and the branch on
\* the outcome.
AfterClaim(c, f, claimed) ==
  IF claimed = NullRound
  THEN ProcessReturns(c, f, NullRound) /\ UNCHANGED resolveCount
  ELSE IF claimed.processingToken # f.claimToken
  THEN ProcessReturns(c, f, claimed) /\ UNCHANGED resolveCount
  ELSE \E draw \in DrawValues :
         LET isWin == IsWin(draw)
             outcome == OutcomeOf(draw)
             coin == CoinOf(draw, claimed.move)
         IN /\ resolveCount' = [resolveCount EXCEPT ![f.rid] = Saturate(@)]
            /\ fr' = [fr EXCEPT ![c] =
                 [f EXCEPT !.round = claimed, !.read = NullRound, !.next = NullRound,
                           !.outcome = outcome, !.coin = coin,
                           !.payout = IF isWin THEN claimed.payout
                                      ELSE LostPayout(claimed.payout)]]
            /\ pc' = [pc EXCEPT ![c] = IF isWin THEN "payout" ELSE "finalize"]

\* randomUUID and the claim update (on the table: its read).
ProcessClaim(c) ==
  /\ pc[c] = "claim"
  /\ Tokens \ UsedTokens # {}
  /\ LET f == [fr[c] EXCEPT !.claimToken = FreshToken]
     IN IF backend = "local"
        THEN LET res == updateLocalRound(rows, f.rid, "claim", f)
             IN rows' = res.rows /\ AfterClaim(c, f, res.data)
        ELSE LET rd == updateSoloRoundRead(rows, f.rid, "claim", f)
             IN /\ UNCHANGED rows
                /\ IF rd.current = NullRound
                   THEN AfterClaim(c, f, NullRound)
                   ELSE /\ fr' = [fr EXCEPT ![c] = [f EXCEPT !.read = rd.current,
                                                             !.next = rd.roundToStore]]
                        /\ pc' = [pc EXCEPT ![c] = "claim_write"]
                        /\ UNCHANGED resolveCount
  /\ UNCHANGED <<chain, call, backend, orgEnv, inst, paidOnChain, createRoundLocks, previous,
                 payoutCount, retryPayoutCount>>

\* The write of the claim update on the table.
ProcessClaimWrite(c) ==
  /\ pc[c] = "claim_write"
  /\ LET res == updateSoloRoundWrite(rows, fr[c].next)
     IN /\ rows' = res.rows
        /\ IF res.error # NoError
           THEN ProcessThrows(c, fr[c], res.error) /\ UNCHANGED resolveCount
           ELSE AfterClaim(c, fr[c], res.data)
  /\ UNCHANGED <<chain, call, backend, orgEnv, inst, paidOnChain, createRoundLocks, previous,
                 payoutCount, retryPayoutCount>>

\* payoutSoloWinner for a won round.
ProcessPayout(c) ==
  /\ pc[c] = "payout"
  /\ \E payout \in PayoutResults :
       fr' = [fr EXCEPT ![c].payout = payout]
  /\ payoutCount' = [payoutCount EXCEPT ![fr[c].rid] = Saturate(@)]
  /\ pc' = [pc EXCEPT ![c] = "finalize"]
  /\ UNCHANGED <<chain, call, backend, orgEnv, inst, rows, paidOnChain, createRoundLocks, previous,
                 resolveCount, retryPayoutCount>>

\* return completed ?? { ...claimed, result, payout }
AfterFinalize(c, f, completed) ==
  ProcessReturns(c, f,
    IF completed # NullRound THEN completed
    ELSE [f.round EXCEPT !.result = [coin |-> f.coin, outcome |-> f.outcome],
                         !.payout = f.payout])

\* The final update (on the table: its read).
ProcessFinalize(c) ==
  /\ pc[c] = "finalize"
  /\ IF backend = "local"
     THEN LET res == updateLocalRound(rows, fr[c].rid, "finalize", fr[c])
          IN rows' = res.rows /\ AfterFinalize(c, fr[c], res.data)
     ELSE LET rd == updateSoloRoundRead(rows, fr[c].rid, "finalize", fr[c])
          IN /\ UNCHANGED rows
             /\ IF rd.current = NullRound
                THEN AfterFinalize(c, fr[c], NullRound)
                ELSE /\ fr' = [fr EXCEPT ![c].read = rd.current,
                                         ![c].next = rd.roundToStore]
                     /\ pc' = [pc EXCEPT ![c] = "finalize_write"]
  /\ UNCHANGED <<chain, call, backend, orgEnv, inst, paidOnChain, createRoundLocks, previous,
                 resolveCount, payoutCount, retryPayoutCount>>

\* The write of the final update on the table.
ProcessFinalizeWrite(c) ==
  /\ pc[c] = "finalize_write"
  /\ LET res == updateSoloRoundWrite(rows, fr[c].next)
     IN /\ rows' = res.rows
        /\ IF res.error # NoError
           THEN ProcessThrows(c, fr[c], res.error)
           ELSE AfterFinalize(c, fr[c], res.data)
  /\ UNCHANGED <<chain, call, backend, orgEnv, inst, paidOnChain, createRoundLocks, previous,
                 resolveCount, payoutCount, retryPayoutCount>>

\* payoutSoloWinner for a completed round that qualifies for the legacy retry.
ProcessRetryPayout(c) ==
  /\ pc[c] = "retry_payout"
  /\ \E payout \in PayoutResults :
       fr' = [fr EXCEPT ![c].payout = payout]
  /\ retryPayoutCount' = [retryPayoutCount EXCEPT ![fr[c].rid] = Saturate(@)]
  /\ pc' = [pc EXCEPT ![c] = "retry_update"]
  /\ UNCHANGED <<chain, call, backend, orgEnv, inst, rows, paidOnChain, createRoundLocks, previous,
                 resolveCount, payoutCount>>

\* return retried ?? { ...current, payout }
AfterRetry(c, f, retried) ==
  ProcessReturns(c, f,
    IF retried # NullRound THEN retried ELSE [f.round EXCEPT !.payout = f.payout])

\* The update of the retry (on the table: its read).
ProcessRetryUpdate(c) ==
  /\ pc[c] = "retry_update"
  /\ IF backend = "local"
     THEN LET res == updateLocalRound(rows, fr[c].rid, "retry", fr[c])
          IN rows' = res.rows /\ AfterRetry(c, fr[c], res.data)
     ELSE LET rd == updateSoloRoundRead(rows, fr[c].rid, "retry", fr[c])
          IN /\ UNCHANGED rows
             /\ IF rd.current = NullRound
                THEN AfterRetry(c, fr[c], NullRound)
                ELSE /\ fr' = [fr EXCEPT ![c].read = rd.current,
                                         ![c].next = rd.roundToStore]
                     /\ pc' = [pc EXCEPT ![c] = "retry_write"]
  /\ UNCHANGED <<chain, call, backend, orgEnv, inst, paidOnChain, createRoundLocks, previous,
                 resolveCount, payoutCount, retryPayoutCount>>

\* The write of the retry update on the table.
ProcessRetryWrite(c) ==
  /\ pc[c] = "retry_write"
  /\ LET res == updateSoloRoundWrite(rows, fr[c].next)
     IN /\ rows' = res.rows
        /\ IF res.error # NoError
           THEN ProcessThrows(c, fr[c], res.error)
           ELSE AfterRetry(c, fr[c], res.data)
  /\ UNCHANGED <<chain, call, backend, orgEnv, inst, paidOnChain, createRoundLocks, previous,
                 resolveCount, payoutCount, retryPayoutCount>>

\* The route handler sends the response; the caller is free for a new request.
Respond(c) ==
  /\ pc[c] = "returned"
  /\ pc' = [pc EXCEPT ![c] = "idle"]
  /\ fr' = [fr EXCEPT ![c] = IdleFrame]
  /\ UNCHANGED <<chain, call, backend, orgEnv, inst, rows, paidOnChain, createRoundLocks, previous,
                 resolveCount, payoutCount, retryPayoutCount>>

\* ----------------------------------------------------------- environment
\* The player sends the entry payment carrying the round's marker.
PlayerPays(roundId) ==
  /\ RowIndex(rows, roundId) # 0
  /\ roundId \notin paidOnChain
  /\ paidOnChain' = paidOnChain \cup {roundId}
  /\ UNCHANGED <<chain, call, backend, orgEnv, inst, rows, createRoundLocks, previous, pc, fr,
                 resolveCount, payoutCount, retryPayoutCount>>

Next ==
  \/ \E c \in Callers, p \in PlayerInputs, m \in Moves : StartCreate(c, p, m)
  \/ \E c \in Callers : CreateFindActive(c)
  \/ \E c \in Callers : CreatePreflight(c)
  \/ \E c \in Callers : CreateBuild(c)
  \/ \E c \in Callers : CreateInsert(c)
  \/ \E c \in Callers, r \in RoundIds : ProcessStart(c, r)
  \/ \E c \in Callers : ProcessEventFound(c)
  \/ \E c \in Callers : ProcessEventMissing(c)
  \/ \E c \in Callers : ProcessHistoryFound(c)
  \/ \E c \in Callers : ProcessHistoryMissing(c)
  \/ \E c \in Callers : ProcessClaim(c)
  \/ \E c \in Callers : ProcessClaimWrite(c)
  \/ \E c \in Callers : ProcessPayout(c)
  \/ \E c \in Callers : ProcessFinalize(c)
  \/ \E c \in Callers : ProcessFinalizeWrite(c)
  \/ \E c \in Callers : ProcessRetryPayout(c)
  \/ \E c \in Callers : ProcessRetryUpdate(c)
  \/ \E c \in Callers : ProcessRetryWrite(c)
  \/ \E c \in Callers : Respond(c)
  \/ \E r \in RoundIds : PlayerPays(r)

Spec == Init /\ [][Next]_vars

\* ------------------------------------------------------------ SpecCreate
\* Creation calls interleave freely over CreateMaxRounds rounds; at most
\* CreateMaxLifecycle lifecycle calls are in flight.
LifecycleInFlight ==
  Cardinality({c \in Callers : pc[c] # "idle" /\ fr[c].op = "process"})

StartCreateMore(c, playerAddress, move) ==
  StartCreateUpTo(CreateMaxRounds, c, playerAddress, move)

ProcessStartBounded(c, roundId) ==
  LifecycleInFlight < CreateMaxLifecycle /\ ProcessStart(c, roundId)

NextCreate ==
  \/ \E c \in Callers, p \in PlayerInputs, m \in Moves : StartCreateMore(c, p, m)
  \/ \E c \in Callers : CreateFindActive(c)
  \/ \E c \in Callers : CreatePreflight(c)
  \/ \E c \in Callers : CreateBuild(c)
  \/ \E c \in Callers : CreateInsert(c)
  \/ \E c \in Callers, r \in RoundIds : ProcessStartBounded(c, r)
  \/ \E c \in Callers : ProcessEventFound(c)
  \/ \E c \in Callers : ProcessEventMissing(c)
  \/ \E c \in Callers : ProcessHistoryFound(c)
  \/ \E c \in Callers : ProcessHistoryMissing(c)
  \/ \E c \in Callers : ProcessClaim(c)
  \/ \E c \in Callers : ProcessClaimWrite(c)
  \/ \E c \in Callers : ProcessPayout(c)
  \/ \E c \in Callers : ProcessFinalize(c)
  \/ \E c \in Callers : ProcessFinalizeWrite(c)
  \/ \E c \in Callers : ProcessRetryPayout(c)
  \/ \E c \in Callers : ProcessRetryUpdate(c)
  \/ \E c \in Callers : ProcessRetryWrite(c)
  \/ \E c \in Callers : Respond(c)
  \/ \E r \in RoundIds : PlayerPays(r)

SpecCreate == Init /\ [][NextCreate]_vars

\* =================================================================== claims
StoredIds(rs) == {rs[i].id : i \in 1..Len(rs)}

\* ---------------------------------------------------------------------- C2
\* C2: two concurrent lifecycle calls that both find the payment of an
\* awaiting_payment round: exactly one of them resolves the outcome, the other
\* sees a foreign claim token and returns, so at most one call resolves a
\* round and payoutSoloWinner is invoked at most once for its resolution.
C2_AtMostOneResolution ==
  \A r \in RoundIds : resolveCount[r] <= 1 /\ payoutCount[r] <= 1

\* ---------------------------------------------------------------------- C3
\* C3: the stored status of a round only moves forward along
\* awaiting_payment -> resolving -> completed: no step takes it back and no
\* step jumps from awaiting_payment to completed.
StatusStepAllowed(from, to) ==
  \/ from = to
  \/ from = "awaiting_payment" /\ to = "resolving"
  \/ from = "resolving" /\ to = "completed"

C3_StatusForwardOnly ==
  [][\A r \in StoredIds(rows) :
       StatusStepAllowed(getSoloRound(rows, r).status, getSoloRound(rows', r).status)]_vars

\* ---------------------------------------------------------------------- C4
\* C4: a conditional update whose updater finds the round no longer in the
\* state the caller expects (not awaiting_payment for the claim, a foreign
\* processingToken for the final write) leaves the store as the other callers
\* last wrote it: its write changes nothing.
LostUpdate(c) ==
  \/ pc[c] = "claim_write" /\ fr[c].read.status # "awaiting_payment"
  \/ pc[c] = "finalize_write" /\ fr[c].read.processingToken # fr[c].claimToken

C4_LosingUpdateWritesNothing ==
  [][\A c \in Callers : (LostUpdate(c) /\ pc'[c] # pc[c]) => rows' = rows]_vars

\* ---------------------------------------------------------------------- C5
\* C5: for a completed round that qualifies for the legacy retry the payout
\* is re-attempted once: payoutSoloWinner is invoked at most once on the retry
\* path of a round, and the stored retryCount is never more than 1.
C5_RetryAtMostOnce ==
  /\ \A r \in RoundIds : retryPayoutCount[r] <= 1
  /\ \A i \in 1..Len(rows) : rows[i].payout.retryCount <= 1

\* ---------------------------------------------------------------------- C7
\* C7: a stored round has a result exactly when its status is completed, and
\* the payout status of a completed round is paid, failed or skipped.
C7_ResultIffCompleted ==
  \A i \in 1..Len(rows) :
    /\ (rows[i].result # NoResult) <=> (rows[i].status = "completed")
    /\ rows[i].status = "completed" =>
         rows[i].payout.status \in {"paid", "failed", "skipped"}

\* A round completed as a win whose payout failed, after two calls resolved it.
C7_Witness ==
  \E i \in 1..Len(rows) :
    /\ rows[i].status = "completed"
    /\ rows[i].result.outcome = "win"
    /\ rows[i].payout.status = "failed"
    /\ resolveCount[rows[i].id] = 2

\* ---------------------------------------------------------------------- C8
\* C8: a stored round carries a processingToken exactly when its status is
\* resolving: the claim write sets it, the final write clears it.
C8_TokenIffResolving ==
  \A i \in 1..Len(rows) :
    (rows[i].processingToken # NoToken) <=> (rows[i].status = "resolving")

\* A round is resolving under the token of a call that is about to finalize,
\* while another call holds a stale copy to write.
C8_Witness ==
  \E i \in 1..Len(rows), c, d \in Callers :
    /\ rows[i].status = "resolving"
    /\ pc[c] = "finalize" /\ fr[c].claimToken = rows[i].processingToken
    /\ pc[d] = "claim_write" /\ fr[d].rid = rows[i].id

\* ------------------------------------------------------------- SpecStore
\* The store on its own: createSoloRoundRecord and updateSoloRound called
\* directly by one caller, the way a test of the store calls them.
StoreFrame(round, error) ==
  [IdleFrame EXCEPT !.op = "store_create", !.playerAddress = round.playerAddress,
                    !.round = round, !.error = error]

StoreCreate(playerAddress, move) ==
  /\ pc[1] = "idle"
  /\ Len(rows) < CreateMaxRounds + 1
  /\ LET round == NewRound(Len(rows) + 1, playerAddress, move)
         res == createSoloRoundRecord(backend, rows, round)
     IN /\ rows' = res.rows
        /\ fr' = [fr EXCEPT ![1] = StoreFrame(round, res.error)]
        /\ pc' = [pc EXCEPT ![1] = "returned"]
  /\ UNCHANGED <<chain, call, backend, orgEnv, inst, paidOnChain, createRoundLocks, previous,
                 resolveCount, payoutCount, retryPayoutCount>>

\* updateSoloRound with the updater of the claim or of the final write, both
\* requests of the table back to back.
StoreUpdate(roundId, kind, outcome) ==
  /\ pc[1] = "idle"
  /\ LET f == [IdleFrame EXCEPT !.rid = roundId, !.claimToken = 1, !.payment = roundId,
                                !.outcome = outcome, !.coin = "heads",
                                !.payout = LostPayout(PendingPayout)]
         res == IF backend = "local"
                THEN updateLocalRound(rows, roundId, kind, f)
                ELSE updateSoloRoundWrite(rows,
                       updateSoloRoundRead(rows, roundId, kind, f).roundToStore)
     IN /\ RowIndex(rows, roundId) # 0
        /\ rows' = res.rows
        /\ rows' # rows
  /\ UNCHANGED <<chain, call, backend, orgEnv, inst, paidOnChain, createRoundLocks, previous, pc, fr,
                 resolveCount, payoutCount, retryPayoutCount>>

NextStore ==
  \/ \E p \in {q \in PlayerInputs : isAddress(q)}, m \in Moves : StoreCreate(p, m)
  \/ \E r \in RoundIds, k \in {"claim", "finalize"}, o \in {"win", "lose"} :
       StoreUpdate(r, k, o)
  \/ Respond(1)

SpecStore == Init /\ [][NextStore]_vars

\* ---------------------------------------------------------------------- C9
\* C9: createSoloRoundRecord, called for a player who already has a stored
\* round that is not completed (addresses compared ignoring case), fails with
\* a conflict error and leaves the stored rounds unchanged, on both backends.
C9_StoreCreateConflict ==
  [][(pc[1] = "idle" /\ pc'[1] = "returned" /\ fr'[1].op = "store_create"
        /\ findActiveSoloRoundByPlayer(rows, fr'[1].playerAddress) # NullRound)
       => (rows' = rows /\ fr'[1].error # NoError)]_vars

\* ---------------------------------------------------------------------- C1
\* C1: under every interleaving of createSoloRound calls of one player
\* (addresses equal ignoring case) the store never holds two rounds of that
\* player that are not completed, and every call that passed its checks but
\* did not create the round fails with a conflict error, status 409.
OneActiveRoundPerPlayer ==
  \A i, j \in 1..Len(rows) :
    (i # j /\ rows[i].status # "completed" /\ rows[j].status # "completed")
      => ~matchesPlayer(rows[i], rows[j].playerAddress)

CreateLostToOtherRound(c) ==
  /\ pc[c] = "returned"
  /\ fr[c].op = "create"
  /\ fr[c].error.cause \in {"active_round", "Supabase create round failed"}

C1_SingleActiveRound ==
  /\ OneActiveRoundPerPlayer
  /\ \A c \in Callers : CreateLostToOtherRound(c) => toErrorResponse(fr[c].error) = 409

\* --------------------------------------------------------------------- C10
\* C10: a createSoloRound call that fails persists no round: the step that
\* ends a call with an error leaves the stored rounds unchanged, and a round
\* enters the store only in the step that ends a call successfully with that
\* round.
CreateEnds(c) == pc[c] # "returned" /\ pc'[c] = "returned" /\ fr'[c].op = "create"

C10_FailedCreatePersistsNothing ==
  [][/\ \A c \in Callers : (CreateEnds(c) /\ fr'[c].error # NoError) => rows' = rows
     /\ StoredIds(rows') # StoredIds(rows) =>
          \E c \in Callers :
            /\ CreateEnds(c)
            /\ fr'[c].error = NoError
            /\ StoredIds(rows') = StoredIds(rows) \cup {fr'[c].ret.id}]_vars

\* A call failed at its last step, the insert, while the other call's round of
\* the same player is stored.
C10_Witness ==
  \E c \in Callers :
    /\ pc[c] = "returned"
    /\ fr[c].op = "create"
    /\ fr[c].error.cause = "Supabase create round failed"
    /\ findActiveSoloRoundByPlayer(rows, fr[c].playerAddress) # NullRound

\* --------------------------------------------------------------------- C11
\* C11: a createSoloRound call whose task finds a round of its player
\* (addresses equal ignoring letter case) stored and not completed ends there
\* with a conflict error, status 409, that carries the id of that round and
\* stores nothing; and no call ends successfully over such a round.
EqualIgnoringCase(p, q) == ToLowerCase(p) = ToLowerCase(q)

ActiveIdsOf(rs, playerAddress) ==
  {rs[i].id : i \in {j \in 1..Len(rs) :
                      /\ EqualIgnoringCase(rs[j].playerAddress, playerAddress)
                      /\ rs[j].status # "completed"}}

C11_ConflictNamesActiveRound ==
  [][\A c \in Callers :
       /\ (/\ pc[c] = "lock_wait" /\ pc'[c] # "lock_wait"
           /\ ActiveIdsOf(rows, fr[c].playerAddress) # {})
            => /\ pc'[c] = "returned"
               /\ toErrorResponse(fr'[c].error) = 409
               /\ fr'[c].error.roundId \in ActiveIdsOf(rows, fr[c].playerAddress)
               /\ rows' = rows
       /\ (CreateEnds(c) /\ fr'[c].error = NoError)
            => ActiveIdsOf(rows, fr'[c].playerAddress) = {}]_vars

\* A call for the address spelled "A" was refused with 409 naming the stored
\* round of the address spelled "a".
C11_Witness ==
  \E c \in Callers, i \in 1..Len(rows) :
    /\ pc[c] = "returned" /\ fr[c].op = "create"
    /\ fr[c].error.status = 409
    /\ fr[c].error.roundId = rows[i].id
    /\ rows[i].status # "completed"
    /\ fr[c].playerAddress # rows[i].playerAddress
    /\ EqualIgnoringCase(fr[c].playerAddress, rows[i].playerAddress)

\* --------------------------------------------------------------------- C12
\* C12: a lifecycle call on an awaiting_payment round whose transfer is on
\* neither detection path writes nothing to the store in its detection steps
\* and returns, without error, the round it read, still awaiting_payment.
C12_NoPaymentNoWrite ==
  [][\A c \in Callers :
       (/\ pc[c] \in {"check_event", "check_history"}
        /\ pc'[c] # pc[c]
        /\ fr[c].rid \notin paidOnChain)
         => /\ rows' = rows
            /\ pc'[c] = IF pc[c] = "check_event" THEN "check_history" ELSE "returned"
            /\ pc'[c] = "returned" =>
                 /\ fr'[c].error = NoError
                 /\ fr'[c].ret = fr[c].round
                 /\ fr'[c].ret.status = "awaiting_payment"
                 /\ fr'[c].ret.payment.status = "pending"]_vars

\* A call returned the awaiting_payment round it read, which is stored as it
\* was, and no transfer for it is on chain.
C12_Witness ==
  \E c \in Callers :
    /\ pc[c] = "returned" /\ fr[c].op = "process"
    /\ fr[c].rid \notin paidOnChain
    /\ fr[c].ret # NullRound
    /\ fr[c].ret.status = "awaiting_payment"
    /\ getSoloRound(rows, fr[c].rid) = fr[c].ret

\* --------------------------------------------------------------------- C13
\* C13: a detection query that fails is not raised to the caller: the step
\* is the step of a query that found nothing (the event path goes on to the
\* history, the history path returns the round read, unchanged and without
\* error), and the store is not modified.
C13_DetectionFailureSwallowed ==
  [][\A c \in Callers :
       /\ ProcessEvent(c, QueryThrows)
            => /\ ProcessEvent(c, QueryNone)
               /\ pc'[c] = "check_history"
               /\ fr'[c].error = NoError
               /\ rows' = rows
       /\ ProcessHistory(c, QueryThrows)
            => /\ ProcessHistory(c, QueryNone)
               /\ pc'[c] = "returned"
               /\ fr'[c].error = NoError
               /\ fr'[c].ret = fr[c].round
               /\ rows' = rows]_vars

\* The transfer is on chain, the call went through both queries without
\* finding it and returned the awaiting_payment round without error.
C13_Witness ==
  \E c \in Callers :
    /\ pc[c] = "returned" /\ fr[c].op = "process"
    /\ fr[c].rid \in paidOnChain
    /\ fr[c].error = NoError
    /\ fr[c].ret # NullRound
    /\ fr[c].ret.status = "awaiting_payment"

\* --------------------------------------------------------------------- C14
\* C14: for a round resolved with outcome lose payoutSoloWinner is never
\* invoked (no call that drew lose reaches the payout, and no payout was
\* attempted for a round stored as lost), and the stored payout is skipped
\* with an error text and a processed timestamp.
C14_LoseSkipsPayout ==
  /\ \A c \in Callers : pc[c] = "payout" => fr[c].outcome = "win"
  /\ \A i \in 1..Len(rows) :
       rows[i].result.outcome = "lose"
         => /\ payoutCount[rows[i].id] = 0
            /\ rows[i].payout.status = "skipped"
            /\ rows[i].payout.error # None
            /\ rows[i].payout.processedAt # None

\* --------------------------------------------------------------------- C15
\* C15: a call that resolved its round as a win and whose payout attempt
\* failed ends without error, and the round it returns, which is the stored
\* round, is completed with outcome win and payout failed carrying the error
\* text of the attempt.
FailedWinEnds(c) ==
  /\ pc[c] \in {"finalize", "finalize_write"}
  /\ pc'[c] = "returned"
  /\ fr[c].outcome = "win"
  /\ fr[c].payout.status = "failed"

C15_FailedPayoutStillCompletes ==
  [][\A c \in Callers :
       FailedWinEnds(c)
         => /\ fr'[c].error = NoError
            /\ fr'[c].ret = getSoloRound(rows', fr[c].rid)
            /\ fr'[c].ret.status = "completed"
            /\ fr'[c].ret.result.outcome = "win"
            /\ fr'[c].ret.payout.status = "failed"
            /\ fr'[c].ret.payout.error = fr[c].payout.error]_vars

\* ----------------------------------------------------------------- SpecFn
\* Functions applied on their own: the arguments are drawn in the initial
\* state, the one step applies the function.
PayoutCalls ==
  {[fn |-> "payoutSoloWinner", done |-> FALSE,
    args |-> [orgAvatarAddress |-> o, privateKeyRaw |-> k, winnerAddress |-> w,
              attempt |-> a],
    result |-> PendingPayout] :
     o \in {<<>>, <<" ", "B">>, <<"B", "b">>}, k \in KeyInputs, w \in PlayerInputs,
     a \in PayoutAttempts}

DrawCalls ==
  {[fn |-> "draw", done |-> FALSE, args |-> [draw |-> d, move |-> m],
    result |-> NoResult] : d \in DrawValues, m \in Moves}

AmountCalls ==
  {[fn |-> "amount", done |-> FALSE, args |-> [value |-> d],
    result |-> [atto |-> NoAmount, formatted |-> NoAmount,
                payoutAtto |-> NoAmount, payoutFormatted |-> NoAmount]] :
     d \in AmountInputs}

\* A transfer to the recipient whose data field carries the marker itself
\* or another marker, in one of the encodings, matched against the marker.
MarkerCalls ==
  {[fn |-> "isTransferEventMatch", done |-> FALSE,
    args |-> [marker |-> m, carried |-> IF same THEN m ELSE m \o <<"a">>,
              encoding |-> enc, recipientAddress |-> <<"0", "x", "B", "b">>],
    result |-> [matches |-> FALSE]] :
     m \in Markers, same \in BOOLEAN, enc \in Encodings}

\* findPaymentFromTransferHistory for round 1, with its marker or without one.
HistoryCalls ==
  {[fn |-> "findPaymentFromTransferHistory", done |-> FALSE,
    args |-> [playerAddress |-> HistoryPlayer, recipientAddress |-> HistoryRecipient,
              minAmountAtto |-> 2, createdAtIso |-> HistoryCreatedAt,
              expectedData |-> d],
    scannedPages |-> 0, page |-> NoHistoryPage,
    result |-> [found |-> FALSE, row |-> NoHistoryRow, stoppedBy |-> None]] :
     d \in {buildMoveData(1, "heads", HistoryPlayer), <<>>}}

\* The most transactions the SDK hands to sendTransaction for one payout.
MaxTxs == 2

\* sendTransaction of the runner as payoutSoloWinner reaches it through the
\* SDK's transfer: with or without a Safe in front of the signer, with the
\* payload of transactions the SDK built.  The configuration has passed the
\* checks of payoutSoloWinner.
SendCalls ==
  {[fn |-> "sendTransaction", done |-> FALSE,
    args |-> [safeAddress |-> s, txs |-> n],
    tx |-> 0, at |-> "start", simulated |-> <<>>, sent |-> <<>>, receipts |-> <<>>,
    message |-> None,
    result |-> PendingPayout] :
     s \in BOOLEAN, n \in 0..MaxTxs}

FnCalls ==
  PayoutCalls \cup DrawCalls \cup AmountCalls \cup MarkerCalls \cup HistoryCalls
    \cup SendCalls

FnInit ==
  /\ backend = "local"
  /\ orgEnv = <<"B", "b">>
  /\ inst = [c \in Callers |-> "i1"]
  /\ rows = <<>>
  /\ paidOnChain = {}
  /\ createRoundLocks = [i \in Instances |-> [k \in LockKeys |-> 0]]
  /\ previous = [c \in Callers |-> 0]
  /\ pc = [c \in Callers |-> "idle"]
  /\ fr = [c \in Callers |-> IdleFrame]
  /\ resolveCount = [r \in RoundIds |-> 0]
  /\ payoutCount = [r \in RoundIds |-> 0]
  /\ retryPayoutCount = [r \in RoundIds |-> 0]
  /\ call \in FnCalls
  /\ chain = NoChain

ApplyPayout ==
  /\ call.fn = "payoutSoloWinner"
  /\ ~call.done
  /\ call' = [call EXCEPT !.done = TRUE,
                          !.result = payoutSoloWinner(call.args.orgAvatarAddress,
                                       call.args.privateKeyRaw, call.args.winnerAddress,
                                       call.args.attempt)]
  /\ UNCHANGED <<chain, backend, orgEnv, inst, rows, paidOnChain, createRoundLocks, previous,
                 pc, fr, resolveCount, payoutCount, retryPayoutCount>>

\* The draw of a resolution and the outcome and coin computed from it.
ApplyDraw ==
  /\ call.fn = "draw"
  /\ ~call.done
  /\ call' = [call EXCEPT !.done = TRUE,
                          !.result = [coin |-> CoinOf(call.args.draw, call.args.move),
                                      outcome |-> OutcomeOf(call.args.draw)]]
  /\ UNCHANGED <<chain, backend, orgEnv, inst, rows, paidOnChain, createRoundLocks, previous,
                 pc, fr, resolveCount, payoutCount, retryPayoutCount>>

\* The amount converted to base units and formatted back, by the functions
\* of the game service and by those of the payout module.
ApplyAmount ==
  /\ call.fn = "amount"
  /\ ~call.done
  /\ LET atto == parseAmountToAtto(call.args.value)
         payoutAtto == payoutParseAmountToAtto(call.args.value)
     IN call' = [call EXCEPT
          !.done = TRUE,
          !.result = [atto |-> atto,
                      formatted |-> IF atto = NoAmount THEN NoAmount
                                    ELSE formatCrcAmount(atto),
                      payoutAtto |-> payoutAtto,
                      payoutFormatted |-> IF payoutAtto = NoAmount THEN NoAmount
                                          ELSE formatAmountFromAtto(payoutAtto)]]
  /\ UNCHANGED <<chain, backend, orgEnv, inst, rows, paidOnChain, createRoundLocks, previous,
                 pc, fr, resolveCount, payoutCount, retryPayoutCount>>

ApplyMarker ==
  /\ call.fn = "isTransferEventMatch"
  /\ ~call.done
  /\ call' = [call EXCEPT
       !.done = TRUE,
       !.result.matches = isTransferEventMatch(
                    [to |-> <<"0", "x", "b", "b">>,
                     data |-> Encoded(call.args.carried, call.args.encoding)],
                    call.args.marker, call.args.recipientAddress)]
  /\ UNCHANGED <<chain, backend, orgEnv, inst, rows, paidOnChain, createRoundLocks, previous,
                 pc, fr, resolveCount, payoutCount, retryPayoutCount>>

\* Mutant of ScanPage: the scan goes on after a page that reports no more
\* pages.
ScanPage_IgnoresHasMore ==
  /\ call.fn = "findPaymentFromTransferHistory"
  /\ ~call.done
  /\ call.scannedPages < MaxScannedPages
  /\ \/ call' = [call EXCEPT !.done = TRUE, !.result.stoppedBy = "no_page"]
     \/ call' = [call EXCEPT !.done = TRUE, !.result.stoppedBy = "error"]
     \/ \E page \in HistoryPages :
          LET hit == FirstQualifying(page.results, call.args)
              scanned == [call EXCEPT !.scannedPages = @ + 1, !.page = page]
          IN call' =
               IF hit # 0
               THEN [scanned EXCEPT !.done = TRUE,
                                    !.result = [found |-> TRUE,
                                                row |-> page.results[hit],
                                                stoppedBy |-> "row"]]
               ELSE IF scanned.scannedPages >= MaxScannedPages
               THEN [scanned EXCEPT !.done = TRUE, !.result.stoppedBy = "page_limit"]
               ELSE scanned
  /\ UNCHANGED <<chain, backend, orgEnv, inst, rows, paidOnChain, createRoundLocks, previous,
                 pc, fr, resolveCount, payoutCount, retryPayoutCount>>

\* One turn of the scan loop, entered with scannedPages < 5: queryNextPage
\* reports that there is no further page, fails, or delivers a page; the
\* rows of the page are checked in order and the first that passes is
\* returned; without one, the scan ends when the page reports no more pages
\* or when it was the fifth page, and goes on otherwise.
ScanPage ==
  /\ call.fn = "findPaymentFromTransferHistory"
  /\ ~call.done
  /\ call.scannedPages < MaxScannedPages
  /\ \/ call' = [call EXCEPT !.done = TRUE, !.result.stoppedBy = "no_page"]
     \/ call' = [call EXCEPT !.done = TRUE, !.result.stoppedBy = "error"]
     \/ \E page \in HistoryPages :
          LET hit == FirstQualifying(page.results, call.args)
              scanned == [call EXCEPT !.scannedPages = @ + 1, !.page = page]
          IN call' =
               IF hit # 0
               THEN [scanned EXCEPT !.done = TRUE,
                                    !.result = [found |-> TRUE,
                                                row |-> page.results[hit],
                                                stoppedBy |-> "row"]]
               ELSE IF ~page.hasMore
               THEN [scanned EXCEPT !.done = TRUE, !.result.stoppedBy = "no_more"]
               ELSE IF scanned.scannedPages >= MaxScannedPages
               THEN [scanned EXCEPT !.done = TRUE, !.result.stoppedBy = "page_limit"]
               ELSE scanned
  /\ UNCHANGED <<chain, backend, orgEnv, inst, rows, paidOnChain, createRoundLocks, previous,
                 pc, fr, resolveCount, payoutCount, retryPayoutCount>>

\* Something is thrown inside sendTransaction: the loop is left.
SendThrows(message) == [call EXCEPT !.at = "thrown", !.message = message]

\* The next transaction of the payload: with a Safe its hash is prepared
\* first, without one it is sent as it is.
SendNext(c) ==
  [c EXCEPT !.tx = @ + 1, !.at = IF c.args.safeAddress THEN "prepare" ELSE "send"]

\* The check of the payload and the entry into the loop.
SendBegin ==
  /\ call.fn = "sendTransaction" /\ call.at = "start"
  /\ call' = IF call.args.txs = 0 THEN SendThrows("No transaction payload provided")
             ELSE SendNext(call)
  /\ UNCHANGED <<chain, backend, orgEnv, inst, rows, paidOnChain, createRoundLocks, previous,
                 pc, fr, resolveCount, payoutCount, retryPayoutCount>>

\* The Safe's nonce and transaction hash are read and the hash is signed;
\* either read may fail.
SendPrepare ==
  /\ call.fn = "sendTransaction" /\ call.at = "prepare"
  /\ \E ok \in BOOLEAN :
       call' = IF ok THEN [call EXCEPT !.at = "simulate"]
               ELSE SendThrows("The contract function \"nonce\" reverted")
  /\ UNCHANGED <<chain, backend, orgEnv, inst, rows, paidOnChain, createRoundLocks, previous,
                 pc, fr, resolveCount, payoutCount, retryPayoutCount>>

\* execTransaction is simulated with a call: it returns true or false, or
\* the call fails.
SendSimulate ==
  /\ call.fn = "sendTransaction" /\ call.at = "simulate"
  /\ \E outcome \in {"success", "failure", "throws"} :
       LET c == [call EXCEPT !.simulated = Append(@, outcome)]
       IN call' = CASE outcome = "success" -> [c EXCEPT !.at = "send"]
                    [] outcome = "failure" ->
                         [c EXCEPT !.at = "thrown",
                                   !.message = "Safe exec simulation failed for payout transaction"]
                    [] OTHER -> [c EXCEPT !.at = "thrown", !.message = "execution reverted"]
  /\ UNCHANGED <<chain, backend, orgEnv, inst, rows, paidOnChain, createRoundLocks, previous,
                 pc, fr, resolveCount, payoutCount, retryPayoutCount>>

\* walletClient.sendTransaction: the transaction is submitted, or the
\* submission fails.
SendSubmit ==
  /\ call.fn = "sendTransaction" /\ call.at = "send"
  /\ \E ok \in BOOLEAN :
       call' = IF ok THEN [call EXCEPT !.sent = Append(@, call.tx), !.at = "receipt"]
               ELSE SendThrows("insufficient funds for gas")
  /\ UNCHANGED <<chain, backend, orgEnv, inst, rows, paidOnChain, createRoundLocks, previous,
                 pc, fr, resolveCount, payoutCount, retryPayoutCount>>

\* Mutant of SendReceipt: the status of the receipt is not looked at.
SendReceipt_IgnoresStatus ==
  /\ call.fn = "sendTransaction" /\ call.at = "receipt"
  /\ \E status \in {"success", "reverted"} :
       LET c == [call EXCEPT !.receipts = Append(@, status)]
       IN call' = IF c.tx < c.args.txs THEN SendNext(c) ELSE [c EXCEPT !.at = "return"]
  /\ UNCHANGED <<chain, backend, orgEnv, inst, rows, paidOnChain, createRoundLocks, previous,
                 pc, fr, resolveCount, payoutCount, retryPayoutCount>>

\* waitForTransactionReceipt: the receipt of the submitted transaction,
\* with status success or reverted, or the wait fails.  A receipt that is
\* not a success is thrown; after the last transaction the loop ends.
SendReceipt ==
  /\ call.fn = "sendTransaction" /\ call.at = "receipt"
  /\ \E status \in {"success", "reverted", "throws"} :
       IF status = "throws"
       THEN call' = SendThrows("Timed out while waiting for transaction")
       ELSE LET c == [call EXCEPT !.receipts = Append(@, status)]
            IN call' = IF status # "success"
                       THEN [c EXCEPT !.at = "thrown",
                                      !.message = "Payout transaction reverted"]
                       ELSE IF c.tx < c.args.txs THEN SendNext(c)
                       ELSE [c EXCEPT !.at = "return"]
  /\ UNCHANGED <<chain, backend, orgEnv, inst, rows, paidOnChain, createRoundLocks, previous,
                 pc, fr, resolveCount, payoutCount, retryPayoutCount>>

\* sendTransaction returns the last receipt or throws, the SDK's transfer
\* hands that on, and payoutSoloWinner builds the payout record from it.
SendReturn ==
  /\ call.fn = "sendTransaction" /\ call.at \in {"return", "thrown"}
  /\ call' = [call EXCEPT
       !.done = TRUE, !.at = "done",
       !.result = payoutSoloWinner(<<"B", "b">>, "0xkey", <<"a">>,
                    IF call.at = "thrown" THEN Throws(call.message)
                    ELSE Receipt("0xpayout", None))]
  /\ UNCHANGED <<chain, backend, orgEnv, inst, rows, paidOnChain, createRoundLocks, previous,
                 pc, fr, resolveCount, payoutCount, retryPayoutCount>>

NextFn ==
  \/ ApplyPayout
  \/ ApplyDraw
  \/ ApplyAmount
  \/ ApplyMarker
  \/ ScanPage
  \/ SendBegin
  \/ SendPrepare
  \/ SendSimulate
  \/ SendSubmit
  \/ SendReceipt
  \/ SendReturn

SpecFn == FnInit /\ [][NextFn]_vars

\* --------------------------------------------------------------------- C16
\* C16: payoutSoloWinner returns, for every input and every failure, a payout
\* record whose status is paid, with a transaction hash, or failed, with an
\* error text.
C16_PayoutPaidOrFailed ==
  (call.fn = "payoutSoloWinner" /\ call.done)
    => \/ call.result.status = "paid" /\ call.result.txHash # None
       \/ call.result.status = "failed" /\ call.result.error # None

\* --------------------------------------------------------------------- C17
\* C17: in every resolved round the coin is the chosen move when the outcome
\* is win and the opposite face when the outcome is lose.
Opposite(move) == CHOOSE m \in Moves : m # move

C17_CoinMatchesOutcome ==
  \A i \in 1..Len(rows) :
    rows[i].result # NoResult
      => /\ rows[i].result.outcome \in {"win", "lose"}
         /\ rows[i].result.outcome = "win" => rows[i].result.coin = rows[i].move
         /\ rows[i].result.outcome = "lose" =>
              rows[i].result.coin = Opposite(rows[i].move)

\* A lost round of the move tails is stored with the coin heads.
C17_Witness ==
  \E i \in 1..Len(rows) :
    /\ rows[i].status = "completed"
    /\ rows[i].move = "tails"
    /\ rows[i].result.outcome = "lose"
    /\ rows[i].result.coin = "heads"

\* --------------------------------------------------------------------- C18
\* C18: the draw ranges over the ten values 0..9, the outcome is win exactly
\* when the draw is 0 and lose for each other value: one value in ten wins.
C18_OneInTenWins ==
  /\ DrawValues = 0..9
  /\ Cardinality({d \in DrawValues : OutcomeOf(d) = "win"}) = 1
  /\ (call.fn = "draw" /\ call.done)
       => /\ call.result.outcome = "win" <=> call.args.draw = 0
          /\ call.result.outcome = "lose" <=> call.args.draw \in 1..9

\* The draw 0 was resolved as a win.
C18_Witness ==
  /\ call.fn = "draw" /\ call.done
  /\ call.args.draw = 0
  /\ call.result.outcome = "win"

\* --------------------------------------------------------------------- C19
\* C19: a lifecycle call that reads a completed round returns it as stored,
\* without payout invocation and without store write, unless the round is a
\* win whose payout failed, has no transaction hash, was not retried yet and
\* carries one of the known transient error texts; then it goes on to retry.
TransientErrorTexts ==
  {"Direct transfer failed", "Execution reverted for an unknown reason."}

QualifiesForRetry(round) ==
  /\ round.result.outcome = "win"
  /\ round.payout.status = "failed"
  /\ round.payout.txHash = None
  /\ round.payout.retryCount \in {NoRetryCount, 0}
  /\ round.payout.error \in TransientErrorTexts

ReadsCompleted(c) ==
  /\ pc[c] = "idle" /\ pc'[c] # "idle"
  /\ fr'[c].op = "process"
  /\ getSoloRound(rows, fr'[c].rid) # NullRound
  /\ getSoloRound(rows, fr'[c].rid).status = "completed"

C19_CompletedReturnedAsIs ==
  [][\A c \in Callers :
       ReadsCompleted(c)
         => IF QualifiesForRetry(getSoloRound(rows, fr'[c].rid))
            THEN pc'[c] = "retry_payout"
            ELSE /\ pc'[c] = "returned"
                 /\ fr'[c].error = NoError
                 /\ fr'[c].ret = getSoloRound(rows, fr'[c].rid)
                 /\ rows' = rows
                 /\ payoutCount' = payoutCount
                 /\ retryPayoutCount' = retryPayoutCount]_vars

\* A won round whose payout failed again in its one retry: both callers hold
\* it as their result, and only one payout was attempted on the retry path.
C19_Witness ==
  \E i \in 1..Len(rows) :
    /\ rows[i].status = "completed"
    /\ rows[i].payout.status = "failed"
    /\ rows[i].payout.error \in TransientErrorTexts
    /\ rows[i].payout.retryCount = 1
    /\ retryPayoutCount[rows[i].id] = 1
    /\ \A c \in Callers : pc[c] = "returned" /\ fr[c].ret = rows[i]

\* -------------------------------------------------------------- SpecCrash
\* The process of a caller can stop between the claim write and the final
\* write of its call (a crash, a killed serverless invocation): the call
\* takes no further step.
CallerStops(c) ==
  /\ pc[c] \in {"payout", "finalize", "finalize_write"}
  /\ pc' = [pc EXCEPT ![c] = "stopped"]
  /\ UNCHANGED <<chain, call, backend, orgEnv, inst, rows, paidOnChain, createRoundLocks, previous,
                 fr, resolveCount, payoutCount, retryPayoutCount>>

NextCrash ==
  \/ Next
  \/ \E c \in Callers : CallerStops(c)

SpecCrash == Init /\ [][NextCrash]_vars

\* --------------------------------------------------------------------- C20
\* C20: a lifecycle call that reads a resolving round returns it as stored,
\* with no detection query, no payout invocation and no store write; so a
\* round that is resolving under the token of a stopped call, with no other
\* call on it in flight, is resolving in every later state.
ReadsResolving(c) ==
  /\ pc[c] = "idle" /\ pc'[c] # "idle"
  /\ fr'[c].op = "process"
  /\ getSoloRound(rows, fr'[c].rid) # NullRound
  /\ getSoloRound(rows, fr'[c].rid).status = "resolving"

InFlightOn(pcs, frs, c, r) ==
  /\ pcs[c] \notin {"idle", "returned", "stopped"}
  /\ frs[c].op = "process"
  /\ frs[c].rid = r

Orphaned(rs, pcs, r) ==
  /\ getSoloRound(rs, r) # NullRound
  /\ getSoloRound(rs, r).status = "resolving"
  /\ \E c \in Callers :
       /\ pcs[c] = "stopped"
       /\ fr[c].rid = r
       /\ fr[c].claimToken = getSoloRound(rs, r).processingToken

RECURSIVE TrimmedDecimal(_)
TrimmedDecimal(d) ==
  IF ~(\E i \in 1..Len(d) : d[i] = ".") THEN d
  ELSE IF d[Len(d)] \in {"0", "."} THEN TrimmedDecimal(SubSeq(d, 1, Len(d) - 1))
  ELSE d

InAmountGrammar(d) ==
  /\ MatchesAmountPattern(d)
  /\ \E i \in 1..Len(d) : d[i] \in DigitChars \ {"0"}

C22_AmountRoundTrip ==
  (call.fn = "amount" /\ call.done /\ InAmountGrammar(call.args.value))
    => /\ call.result.atto # NoAmount
       /\ call.result.formatted = TrimmedDecimal(call.args.value)
       /\ call.result.payoutAtto = call.result.atto
       /\ call.result.payoutFormatted = call.result.formatted

\* An amount of the full 18 fractional digits went through the round trip,
\* and one with trailing zeros came back shorter.
C22_Witness ==
  /\ call.fn = "amount" /\ call.done
  /\ InAmountGrammar(call.args.value)
  /\ call.result.formatted # NoAmount
  /\ \/ Len(call.args.value) = Decimals + 2 /\ call.result.formatted = call.args.value
     \/ /\ Len(call.result.formatted) < Len(call.args.value)
        /\ call.args.value[Len(call.args.value)] = "0"

\* --------------------------------------------------------------------- C23
\* C23 as amended: for every marker m that is not empty after trimming, a
\* transfer whose data field holds m as raw text, the hex encoding of m, or
\* the hex encoding of m with the 0x prefix matches m, in each of the three
\* cases.
CarriesMarker == call.fn = "isTransferEventMatch" /\ call.done
                   /\ call.args.carried = call.args.marker

NotBlank(m) == \E i \in 1..Len(m) : m[i] # " "

C23_MarkerMatchesEveryEncoding ==
  (CarriesMarker /\ NotBlank(call.args.marker)) => call.result.matches

\* C23 as stated: every non-empty marker m matches in each of the three
\* cases.
C23_Original ==
  (CarriesMarker /\ call.args.marker # <<>>) => call.result.matches

\* A marker with a capital letter and a blank around it matched from its hex
\* encoding, which is not the hex encoding of the normalised marker.
C23_Witness ==
  /\ CarriesMarker
  /\ call.args.encoding = "hex"
  /\ call.args.marker = <<" ", "A", "x">>
  /\ call.result.matches

\* --------------------------------------------------------------------- C24
\* C24: the history fallback returns a row as the round's payment only if
\* the row's from is the player, its to is the recipient, its amount is at
\* least the entry amount, its timestamp is not before the round's creation
\* time, and its embedded transfer-data events contain one whose data matches
\* the round's expected marker.
HasMatchingTransferData(row, expectedData) ==
  \E i \in 1..Len(row.events.events) :
    /\ row.events.kind \in {"array", "json"}
    /\ row.events.events[i].type = "CrcV2_TransferData"
    /\ eventMatchesData(row.events.events[i].data, expectedData)

C24_HistoryRowAccepted ==
  (call.fn = "findPaymentFromTransferHistory" /\ call.result.found
     /\ call.args.expectedData # <<>>)
    => /\ EqualIgnoringCase(call.result.row.from, call.args.playerAddress)
       /\ EqualIgnoringCase(call.result.row.to, call.args.recipientAddress)
       /\ call.result.row.attoCircles >= call.args.minAmountAtto
       /\ call.result.row.timestamp >= call.args.createdAtIso.ms \div 1000
       /\ HasMatchingTransferData(call.result.row, call.args.expectedData)

\* --------------------------------------------------------------------- C26
\* C26: a lifecycle call queries the event feed first, right after its read
\* of the round; it queries the history only after the event feed gave it no
\* payment (no match, or a failure), and a call to which the event feed
\* returned a match goes on to the claim without querying the history.
C26_EventFeedBeforeHistory ==
  [][\A c \in Callers :
       /\ (pc'[c] = "check_event" /\ pc[c] # "check_event")
            => (pc[c] = "idle" /\ fr'[c].payment = NoHash)
       /\ (pc'[c] = "check_history" /\ pc[c] # "check_history")
            => (pc[c] = "check_event" /\ fr'[c].payment = NoHash)
       /\ (pc[c] = "check_event" /\ pc'[c] # "check_event")
            => \/ pc'[c] = "check_history" /\ fr'[c].payment = NoHash
               \/ pc'[c] = "claim" /\ fr'[c].payment # NoHash
       /\ (pc[c] = "check_history" /\ pc'[c] # "check_history")
            => \/ pc'[c] = "returned" /\ fr'[c].ret = fr[c].round
               \/ pc'[c] = "claim" /\ fr'[c].payment # NoHash]_vars

\* One call is about to query the history although the transfer is on chain
\* (the event feed gave it nothing), while another call has its payment and
\* is about to claim.
C26_Witness ==
  \E c, d \in Callers :
    /\ pc[c] = "check_history" /\ fr[c].rid \in paidOnChain
    /\ pc[d] = "claim" /\ fr[d].payment # NoHash

\* --------------------------------------------------------------- SpecScan
\* The functions applied on their own, where every request of the history
\* scan is answered: the scan takes its next turn as long as it has one.
SpecScan == FnInit /\ [][NextFn]_vars /\ WF_vars(ScanPage)

\* --------------------------------------------------------------------- C27
\* C27: one call of the history fallback scans at most 5 pages; it ends
\* with the first row of a page that qualifies, and it ends as soon as a page
\* reports that no more pages follow; so every call ends.
ScanCall == call.fn = "findPaymentFromTransferHistory"

ScanStopsInTime ==
  /\ call.scannedPages <= MaxScannedPages
  /\ call.scannedPages = MaxScannedPages => call.done
  /\ ~call.page.hasMore => call.done
  /\ call.result.found
       => /\ call.done
          /\ \E i \in 1..Len(call.page.results) :
               /\ call.result.row = call.page.results[i]
               /\ HistoryRowQualifies(call.page.results[i], call.args)
               /\ \A j \in 1..(i - 1) :
                    ~HistoryRowQualifies(call.page.results[j], call.args)
  /\ ~call.result.found
       => \A i \in 1..Len(call.page.results) :
            ~HistoryRowQualifies(call.page.results[i], call.args)

C27_ScanBoundedAndEnds ==
  /\ [](ScanCall => ScanStopsInTime)
  /\ ScanCall ~> call.done

\* A scan ended at the page limit: five pages without a qualifying row, each
\* reporting more pages.
C27_Witness ==
  /\ ScanCall /\ call.done
  /\ call.scannedPages = MaxScannedPages
  /\ call.result.stoppedBy = "page_limit"
  /\ call.page.hasMore

\* ---------------------------------------------------------------- SpecPay
\* Rounds of one player after the other, the transfers the player sends and
\* the time at which each happens, in seconds.  One caller runs the create
\* and the lifecycle calls one at a time.
MaxClock == 1

\* payment.amountCRC of a round, in base units.
EntryFeeAtto == 2

PayPlayers == {<<"a">>, <<"A">>}

PayRecipient == <<"B", "b">>

\* The transfer the player sends for a round: it carries the round's marker;
\* the row the history reports for it embeds its transfer-data event, or
\* has no events field.
Transfer(round, now, embedded) ==
  [id |-> round.id,
   from |-> round.playerAddress,
   to |-> PayRecipient,
   timestamp |-> now,
   attoCircles |-> EntryFeeAtto,
   data |-> buildMoveData(round.id, round.move, round.playerAddress),
   events |-> IF embedded
              THEN RawEvents("array",
                     <<[type |-> "CrcV2_TransferData",
                        data |-> buildMoveData(round.id, round.move, round.playerAddress)]>>)
              ELSE RawEvents("undefined", <<>>)]

\* The row of the transaction history for a transfer.
HistoryRowOf(t) ==
  HistoryRow(t.from, t.to, ToString(t.id), t.timestamp, t.attoCircles, t.events)

\* What the lifecycle passes to findPaymentFromTransferHistory for a round.
HistoryParams(round, createdAtSeconds) ==
  [playerAddress |-> round.playerAddress,
   recipientAddress |-> PayRecipient,
   minAmountAtto |-> EntryFeeAtto,
   createdAtIso |-> [valid |-> TRUE, ms |-> createdAtSeconds * 1000],
   expectedData |-> buildMoveData(round.id, round.move, round.playerAddress)]

\* The transfers checkPaymentReceived can return for a round.
EventFeedMatches(round, transfers) ==
  {t \in transfers :
     isTransferEventMatch([to |-> t.to, data |-> t.data],
       buildMoveData(round.id, round.move, round.playerAddress), PayRecipient)}

\* The transfers findPaymentFromTransferHistory can return for a round: the
\* qualifying rows no newer qualifying row comes before (the history is
\* read newest first).
HistoryMatches(round, createdAtSeconds, transfers) ==
  LET qualifying ==
        {t \in transfers :
           HistoryRowQualifies(HistoryRowOf(t), HistoryParams(round, createdAtSeconds))}
  IN {t \in qualifying : \A u \in qualifying : u.timestamp <= t.timestamp}

PayInit ==
  /\ backend \in {"local", "shared"}
  /\ orgEnv = PayRecipient
  /\ inst = [c \in Callers |-> "i1"]
  /\ rows = <<>>
  /\ paidOnChain = {}
  /\ createRoundLocks = [i \in Instances |-> [k \in LockKeys |-> 0]]
  /\ previous = [c \in Callers |-> 0]
  /\ pc = [c \in Callers |-> "idle"]
  /\ fr = [c \in Callers |-> IdleFrame]
  /\ resolveCount = [r \in RoundIds |-> 0]
  /\ payoutCount = [r \in RoundIds |-> 0]
  /\ retryPayoutCount = [r \in RoundIds |-> 0]
  /\ call = NoCall
  /\ chain = NoChain

\* createSoloRound, run to its end: no active round of the player, the round
\* is stored with the time of its creation.
PayCreate(playerAddress, move) ==
  /\ Len(rows) < CreateMaxRounds
  /\ findActiveSoloRoundByPlayer(rows, playerAddress) = NullRound
  /\ LET res == createSoloRoundRecord(backend, rows,
                  NewRound(Len(rows) + 1, playerAddress, move))
     IN /\ res.error = NoError
        /\ rows' = res.rows
  /\ chain' = [chain EXCEPT !.createdAt = Append(@, chain.now)]
  /\ UNCHANGED <<call, backend, orgEnv, inst, paidOnChain, createRoundLocks, previous,
                 pc, fr, resolveCount, payoutCount, retryPayoutCount>>

\* The player sends the entry payment of a stored round.
PaySend(roundId, embedded) ==
  /\ RowIndex(rows, roundId) # 0
  /\ getSoloRound(rows, roundId).status = "awaiting_payment"
  /\ roundId \notin paidOnChain
  /\ paidOnChain' = paidOnChain \cup {roundId}
  /\ chain' = [chain EXCEPT !.transfers =
                 @ \cup {Transfer(getSoloRound(rows, roundId), chain.now, embedded)}]
  /\ UNCHANGED <<call, backend, orgEnv, inst, rows, createRoundLocks, previous,
                 pc, fr, resolveCount, payoutCount, retryPayoutCount>>

\* A second passes.
PayTick ==
  /\ chain.now < MaxClock
  /\ chain' = [chain EXCEPT !.now = @ + 1]
  /\ UNCHANGED <<call, backend, orgEnv, inst, rows, paidOnChain, createRoundLocks,
                 previous, pc, fr, resolveCount, payoutCount, retryPayoutCount>>

\* processSoloRoundLifecycle on an awaiting_payment round, run to its end
\* with no other call on the round: the payment found is claimed, the
\* outcome drawn and the round finalized.
PayResolve(roundId, payment) ==
  /\ \E draw \in DrawValues, paid \in PayoutResults :
       LET current == getSoloRound(rows, roundId)
           token == FreshToken
           claimed == ClaimUpdater(current, token, payment)
           payout == IF IsWin(draw) THEN paid ELSE LostPayout(claimed.payout)
       IN rows' = ReplaceRow(rows,
                    FinalizeUpdater(claimed, token, CoinOf(draw, claimed.move),
                                    OutcomeOf(draw), payout))
  /\ resolveCount' = [resolveCount EXCEPT ![roundId] = Saturate(@)]
  /\ UNCHANGED <<chain, call, backend, orgEnv, inst, paidOnChain, createRoundLocks,
                 previous, pc, fr, payoutCount, retryPayoutCount>>

\* The event feed returns a matching transfer.
PayProcessEvent(roundId) ==
  /\ RowIndex(rows, roundId) # 0
  /\ getSoloRound(rows, roundId).status = "awaiting_payment"
  /\ \E t \in EventFeedMatches(getSoloRound(rows, roundId), chain.transfers) :
       PayResolve(roundId, t.id)

\* The event feed returns no match or fails, and the history returns a row.
PayProcessHistory(roundId) ==
  /\ RowIndex(rows, roundId) # 0
  /\ getSoloRound(rows, roundId).status = "awaiting_payment"
  /\ \E t \in HistoryMatches(getSoloRound(rows, roundId), chain.createdAt[roundId],
                             chain.transfers) :
       PayResolve(roundId, t.id)

NextPay ==
  \/ \E p \in PayPlayers, m \in Moves : PayCreate(p, m)
  \/ \E r \in RoundIds, embedded \in BOOLEAN : PaySend(r, embedded)
  \/ PayTick
  \/ \E r \in RoundIds : PayProcessEvent(r)
  \/ \E r \in RoundIds : PayProcessHistory(r)

SpecPay == PayInit /\ [][NextPay]_vars

\* --------------------------------------------------------------------- C25
\* C25: no transaction is recorded as payment.transactionHash of two
\* different rounds.
C25_OneRoundPerTransfer ==
  \A i, j \in 1..Len(rows) :
    (i # j /\ rows[i].payment.transactionHash # NoHash)
      => rows[i].payment.transactionHash # rows[j].payment.transactionHash

\* --------------------------------------------------------------- SpecLock
\* withPlayerCreateLock on its own, in one process: NumLockTasks calls, each
\* with a task that runs for a while and then succeeds or fails.  The
\* order of registration under each key is recorded next to the lock map.
NumLockTasks == 3

LockTasks == 1..NumLockTasks

LockProcess == "i1"

\* No call is registered under any key.
NoRegistrations ==
  [fn |-> "withPlayerCreateLock", done |-> FALSE,
   registered |-> [k \in LockKeys |-> <<>>]]

LockFrame(playerAddress, error) ==
  [IdleFrame EXCEPT !.op = "lock", !.playerAddress = playerAddress, !.error = error]

LockInit ==
  /\ backend = "local"
  /\ orgEnv = <<"B", "b">>
  /\ inst = [t \in LockTasks |-> LockProcess]
  /\ rows = <<>>
  /\ paidOnChain = {}
  /\ createRoundLocks = [i \in Instances |-> [k \in LockKeys |-> 0]]
  /\ previous = [t \in LockTasks |-> 0]
  /\ pc = [t \in LockTasks |-> "idle"]
  /\ fr = [t \in LockTasks |-> IdleFrame]
  /\ resolveCount = [r \in RoundIds |-> 0]
  /\ payoutCount = [r \in RoundIds |-> 0]
  /\ retryPayoutCount = [r \in RoundIds |-> 0]
  /\ call = NoRegistrations
  /\ chain = NoChain

\* The call up to its await: previous is read from the map, the call's own
\* tail is stored under the key.
LockRegister(t, playerAddress) ==
  /\ pc[t] = "idle"
  /\ LET key == normalizeAddressKey(playerAddress)
     IN /\ previous' = [previous EXCEPT ![t] = createRoundLocks[inst[t]][key]]
        /\ createRoundLocks' = [createRoundLocks EXCEPT ![inst[t]][key] = t]
        /\ call' = [call EXCEPT !.registered[key] = Append(@, t)]
  /\ fr' = [fr EXCEPT ![t] = LockFrame(playerAddress, NoError)]
  /\ pc' = [pc EXCEPT ![t] = "lock_wait"]
  /\ UNCHANGED <<chain, backend, orgEnv, inst, rows, paidOnChain,
                 resolveCount, payoutCount, retryPayoutCount>>

\* Mutant of LockRun: the task starts without waiting for the previous tail.
LockRun_NoWait(t) ==
  /\ pc[t] = "lock_wait"
  /\ pc' = [pc EXCEPT ![t] = "running"]
  /\ UNCHANGED <<chain, call, backend, orgEnv, inst, rows, paidOnChain, createRoundLocks,
                 previous, fr, resolveCount, payoutCount, retryPayoutCount>>

\* await previous.catch(...) returns: the task starts.
LockRun(t) ==
  /\ pc[t] = "lock_wait"
  /\ previous[t] = 0
  /\ pc' = [pc EXCEPT ![t] = "running"]
  /\ UNCHANGED <<chain, call, backend, orgEnv, inst, rows, paidOnChain, createRoundLocks,
                 previous, fr, resolveCount, payoutCount, retryPayoutCount>>

\* Mutant of LockFinish: a task that fails leaves without the finally block.
LockFinish_FailureKeepsLock(t, failed) ==
  /\ pc[t] = "running"
  /\ LET key == normalizeAddressKey(fr[t].playerAddress)
     IN /\ previous' = IF failed THEN previous ELSE ReleasedPrevious(t)
        /\ createRoundLocks' = IF failed THEN createRoundLocks ELSE ReleasedLocks(t, key)
        /\ call' = [call EXCEPT !.registered[key] = SelectSeq(@, LAMBDA u : u # t)]
  /\ fr' = [fr EXCEPT ![t].error = IF failed THEN PlainError("task_failed") ELSE NoError]
  /\ pc' = [pc EXCEPT ![t] = "returned"]
  /\ UNCHANGED <<chain, backend, orgEnv, inst, rows, paidOnChain,
                 resolveCount, payoutCount, retryPayoutCount>>

\* The task ends, with its value or with an error: the finally block
\* releases the gate and removes the map entry if it still is this call's.
LockFinish(t, failed) ==
  /\ pc[t] = "running"
  /\ LET key == normalizeAddressKey(fr[t].playerAddress)
     IN /\ previous' = ReleasedPrevious(t)
        /\ createRoundLocks' = ReleasedLocks(t, key)
        /\ call' = [call EXCEPT !.registered[key] = SelectSeq(@, LAMBDA u : u # t)]
  /\ fr' = [fr EXCEPT ![t].error = IF failed THEN PlainError("task_failed") ELSE NoError]
  /\ pc' = [pc EXCEPT ![t] = "returned"]
  /\ UNCHANGED <<chain, backend, orgEnv, inst, rows, paidOnChain,
                 resolveCount, payoutCount, retryPayoutCount>>

\* The caller has the result; it may call again.
LockReturn(t) ==
  /\ pc[t] = "returned"
  /\ pc' = [pc EXCEPT ![t] = "idle"]
  /\ fr' = [fr EXCEPT ![t] = IdleFrame]
  /\ UNCHANGED <<chain, call, backend, orgEnv, inst, rows, paidOnChain, createRoundLocks,
                 previous, resolveCount, payoutCount, retryPayoutCount>>

NextLock ==
  \/ \E t \in LockTasks, p \in PlayerInputs : LockRegister(t, p)
  \/ \E t \in LockTasks : LockRun(t)
  \/ \E t \in LockTasks, failed \in BOOLEAN : LockFinish(t, failed)
  \/ \E t \in LockTasks : LockReturn(t)

SpecLock == LockInit /\ [][NextLock]_vars

\* --------------------------------------------------------------------- C28
\* C28: the tasks of withPlayerCreateLock calls whose addresses are equal
\* after trimming and lower-casing never overlap: no two of them run at the
\* same time, and a task runs only when every call registered before it
\* under the same key has finished.
SameKey(p, q) == ToLowerCase(Trim(p)) = ToLowerCase(Trim(q))

RegisteredBefore(t, u) ==
  \E k \in LockKeys, i, j \in 1..NumLockTasks :
    /\ i < j /\ j <= Len(call.registered[k])
    /\ call.registered[k][i] = t /\ call.registered[k][j] = u

C28_TasksNeverOverlap ==
  \A t, u \in LockTasks :
    /\ (t # u /\ pc[t] = "running" /\ pc[u] = "running")
         => ~SameKey(fr[t].playerAddress, fr[u].playerAddress)
    /\ pc[u] = "running" => ~RegisteredBefore(t, u)

\* A task runs while two calls of the same key, spelled differently, wait
\* behind it.
C28_Witness ==
  \E t, u, w \in LockTasks :
    /\ pc[t] = "running" /\ pc[u] = "lock_wait" /\ pc[w] = "lock_wait"
    /\ u # w
    /\ SameKey(fr[t].playerAddress, fr[u].playerAddress)
    /\ SameKey(fr[t].playerAddress, fr[w].playerAddress)
    /\ fr[t].playerAddress # fr[u].playerAddress

\* Every call that waits is resumed once its previous tail is settled, and
\* every running task terminates.
LiveLock ==
  /\ LockInit /\ [][NextLock]_vars
  /\ \A t \in LockTasks :
       /\ WF_vars(LockRun(t))
       /\ WF_vars(\E failed \in BOOLEAN : LockFinish(t, failed))

\* --------------------------------------------------------------------- C29
\* C29: the tasks of one key run in the order of their registration: the
\* call whose task starts is the earliest registered call of its key that
\* has not finished.  A task that fails releases the lock as one that
\* succeeds does: while every running task terminates, every call that
\* waits gets to run its task.
LockKeyOf(t) == normalizeAddressKey(fr[t].playerAddress)

TaskStarts(t) == pc[t] = "lock_wait" /\ pc'[t] = "running"

C29_FifoAndEveryTaskRuns ==
  /\ [][\A t \in LockTasks : TaskStarts(t) => Head(call.registered[LockKeyOf(t)]) = t]_vars
  /\ \A t \in LockTasks : (pc[t] = "lock_wait") ~> (pc[t] = "running")

\* A task runs after the task registered before it under its key has failed,
\* with a third call of the key waiting behind it.
C29_Witness ==
  \E t, u, w \in LockTasks :
    /\ pc[t] = "returned" /\ fr[t].error # NoError
    /\ pc[u] = "running" /\ pc[w] = "lock_wait" /\ previous[w] = u
    /\ LockKeyOf(t) = LockKeyOf(u) /\ LockKeyOf(u) = LockKeyOf(w)

\* --------------------------------------------------------------------- C30
\* C30: the lock map of the process holds an entry for a key exactly while
\* some call of that key waits or runs its task, and the entry is the tail
\* of the call registered last: the entry goes when the last registered
\* call finishes, and a call that finishes leaves the entry of a newer call
\* in place.
LockHeld(k) ==
  \E t \in LockTasks : pc[t] \in {"lock_wait", "running"} /\ LockKeyOf(t) = k

LastRegistered(k) == call.registered[k][Len(call.registered[k])]

C30_EntryOnlyWhileInUse ==
  \A k \in LockKeys :
    /\ createRoundLocks[LockProcess][k] # 0 <=> LockHeld(k)
    /\ LockHeld(k) => createRoundLocks[LockProcess][k] = LastRegistered(k)

\* A call has finished while a newer call of its key holds the entry, and
\* the entry of another key is gone after its only call finished.
C30_Witness ==
  \E t, u, w \in LockTasks :
    /\ pc[t] = "returned" /\ pc[u] = "running" /\ pc[w] = "returned"
    /\ LockKeyOf(t) = LockKeyOf(u) /\ LockKeyOf(w) # LockKeyOf(u)
    /\ createRoundLocks[LockProcess][LockKeyOf(u)] = u
    /\ createRoundLocks[LockProcess][LockKeyOf(w)] = 0

\* -------------------------------------------------------------- SpecQueue
\* The file fallback of the store in one process: NumQueueTasks calls of
\* createLocalRoundRecord and updateLocalRound, each a task of the write
\* queue that reads the file, changes its copy and writes the file back.
NumQueueTasks == 3

QueueTasks == 1..NumQueueTasks

\* The round createLocalRoundRecord is given by call t.
QueueRound(t, playerAddress) == NewRound(1 + t, playerAddress, "heads")

\* The arguments of call t: the round to create, or the round id and the
\* updater of an update.
QueueFrame(t, kind, roundId, playerAddress, claimToken) ==
  [IdleFrame EXCEPT !.op = kind, !.rid = roundId, !.playerAddress = playerAddress,
                    !.round = IF kind = "create" THEN QueueRound(t, playerAddress)
                              ELSE NullRound,
                    !.claimToken = claimToken, !.payment = roundId,
                    !.outcome = "lose", !.coin = "tails",
                    !.payout = LostPayout(PendingPayout)]

\* The task of a call applied to the rounds it has read: the rounds it
\* writes (the rounds read if it writes nothing) and the value it returns.
QueueTask(f, rounds) ==
  IF f.op = "create"
  THEN [rows |-> createSoloRoundRecord("local", rounds, f.round).rows,
        data |-> NullRound, writes |-> TRUE]
  ELSE LET res == updateLocalRound(rounds, f.rid, f.op, f)
       IN [rows |-> res.rows, data |-> res.data, writes |-> res.data # NullRound]

\* writeQueue is settled, the file may be missing, nothing was enqueued.
EmptyQueue(exists) ==
  [fn |-> "enqueue", done |-> FALSE, exists |-> exists,
   writeQueue |-> <<>>, log |-> <<>>, failed |-> {},
   rounds |-> [t \in QueueTasks |-> <<>>]]

QueueInit ==
  /\ chain = NoChain
  /\ backend = "local"
  /\ orgEnv = <<"B", "b">>
  /\ inst = [t \in QueueTasks |-> "i1"]
  /\ \E exists \in BOOLEAN :
       /\ call = EmptyQueue(exists)
       /\ rows \in IF exists THEN {<<>>, <<NewRound(1, <<"a">>, "heads")>>} ELSE {<<>>}
  /\ paidOnChain = {}
  /\ createRoundLocks = [i \in Instances |-> [k \in LockKeys |-> 0]]
  /\ previous = [t \in QueueTasks |-> 0]
  /\ pc = [t \in QueueTasks |-> "idle"]
  /\ fr = [t \in QueueTasks |-> IdleFrame]
  /\ resolveCount = [r \in RoundIds |-> 0]
  /\ payoutCount = [r \in RoundIds |-> 0]
  /\ retryPayoutCount = [r \in RoundIds |-> 0]

\* Mutant of Enqueue: the task is not chained onto writeQueue.
Enqueue_Unchained(t, kind, roundId, playerAddress, claimToken) ==
  /\ pc[t] = "idle"
  /\ fr' = [fr EXCEPT ![t] = QueueFrame(t, kind, roundId, playerAddress, claimToken)]
  /\ call' = [call EXCEPT !.log = Append(@, t)]
  /\ pc' = [pc EXCEPT ![t] = "queued"]
  /\ UNCHANGED <<chain, backend, orgEnv, inst, rows, paidOnChain, createRoundLocks,
                 previous, resolveCount, payoutCount, retryPayoutCount>>

\* enqueue(task): the task is chained onto writeQueue, which from now on
\* settles when this task has settled.
Enqueue(t, kind, roundId, playerAddress, claimToken) ==
  /\ pc[t] = "idle"
  /\ fr' = [fr EXCEPT ![t] = QueueFrame(t, kind, roundId, playerAddress, claimToken)]
  /\ call' = [call EXCEPT !.writeQueue = Append(@, t), !.log = Append(@, t)]
  /\ pc' = [pc EXCEPT ![t] = "queued"]
  /\ UNCHANGED <<chain, backend, orgEnv, inst, rows, paidOnChain, createRoundLocks,
                 previous, resolveCount, payoutCount, retryPayoutCount>>

\* The promise the task was chained onto has settled: the task starts.
QueueRun(t) ==
  /\ pc[t] = "queued"
  /\ IF call.writeQueue = <<>> THEN TRUE ELSE Head(call.writeQueue) = t
  /\ pc' = [pc EXCEPT ![t] = "reading"]
  /\ UNCHANGED <<chain, call, backend, orgEnv, inst, rows, paidOnChain, createRoundLocks,
                 previous, fr, resolveCount, payoutCount, retryPayoutCount>>

\* The task has settled: so has the link of writeQueue made for it.
Settled(t) == SelectSeq(call.writeQueue, LAMBDA u : u # t)

\* readRounds inside the task: ensureStore writes an empty list if the file
\* cannot be read, then the file is read and parsed; the change is made to
\* the copy.  An update of a round that is not there returns null and
\* writes nothing; a read that fails rejects the task.
QueueRead(t, throws) ==
  /\ pc[t] = "reading"
  /\ IF throws
     THEN /\ call' = [call EXCEPT !.failed = @ \cup {t}, !.writeQueue = Settled(t)]
          /\ pc' = [pc EXCEPT ![t] = "settled"]
          /\ fr' = [fr EXCEPT ![t].error = PlainError("read_failed")]
          /\ UNCHANGED rows
     ELSE LET task == QueueTask(fr[t], rows)
          IN /\ rows' = rows
             /\ IF task.writes
                THEN /\ call' = [call EXCEPT !.exists = TRUE, !.rounds[t] = rows]
                     /\ pc' = [pc EXCEPT ![t] = "writing"]
                     /\ UNCHANGED fr
                ELSE /\ call' = [call EXCEPT !.exists = TRUE, !.rounds[t] = rows,
                                             !.writeQueue = Settled(t)]
                     /\ pc' = [pc EXCEPT ![t] = "settled"]
                     /\ fr' = [fr EXCEPT ![t].ret = task.data]
  /\ UNCHANGED <<chain, backend, orgEnv, inst, paidOnChain, createRoundLocks,
                 previous, resolveCount, payoutCount, retryPayoutCount>>

\* writeRounds inside the task: the changed copy replaces the file.
QueueWrite(t) ==
  /\ pc[t] = "writing"
  /\ LET task == QueueTask(fr[t], call.rounds[t])
     IN /\ rows' = task.rows
        /\ fr' = [fr EXCEPT ![t].ret = task.data]
  /\ call' = [call EXCEPT !.writeQueue = Settled(t)]
  /\ pc' = [pc EXCEPT ![t] = "settled"]
  /\ UNCHANGED <<chain, backend, orgEnv, inst, paidOnChain, createRoundLocks,
                 previous, resolveCount, payoutCount, retryPayoutCount>>

NextQueue ==
  \/ \E t \in QueueTasks, kind \in {"create", "claim", "finalize"}, roundId \in {1, 2},
        p \in {<<"a">>, <<"b">>}, token \in QueueTasks :
       /\ kind = "create" => roundId = 1 /\ token = 1
       /\ kind # "create" => p = <<"a">>
       /\ kind = "claim" => token = t
       /\ Enqueue(t, kind, roundId, p, token)
  \/ \E t \in QueueTasks : QueueRun(t)
  \/ \E t \in QueueTasks, throws \in BOOLEAN : QueueRead(t, throws)
  \/ \E t \in QueueTasks : QueueWrite(t)

SpecQueue == QueueInit /\ [][NextQueue]_vars

\* --------------------------------------------------------------------- C31
\* C31: on the file fallback the create and update calls of one process are
\* serialized by the write queue: while a call is between its read and its
\* write the file is as the call read it and no other call is inside its
\* task, and once the calls have settled the file holds the calls applied
\* one after another in queue order to the rounds first stored, so no
\* update is lost.
RECURSIVE AppliedInOrder(_, _)
AppliedInOrder(rs, log) ==
  IF log = <<>> THEN rs
  ELSE AppliedInOrder(IF Head(log) \in call.failed THEN rs
                      ELSE QueueTask(fr[Head(log)], rs).rows,
                      Tail(log))

InTask(t) == pc[t] \in {"reading", "writing"}

C31_WriteQueueSerializes ==
  /\ \A t, u \in QueueTasks : (InTask(t) /\ InTask(u)) => t = u
  /\ \A t \in QueueTasks : pc[t] = "writing" => rows = call.rounds[t]
  /\ (\A t \in QueueTasks : pc[t] \in {"idle", "settled"})
       => \E first \in {<<>>, <<NewRound(1, <<"a">>, "heads")>>} :
            rows = AppliedInOrder(first, call.log)

\* Three calls have settled, two of which changed the same round (a claim
\* and the final write of its owner), while they were all queued at once.
C31_Witness ==
  /\ \A t \in QueueTasks : pc[t] = "settled"
  /\ \E i \in 1..Len(rows) : rows[i].id = 1 /\ rows[i].status = "completed"
  /\ Len(rows) = 2
  /\ call.failed = {}

\* --------------------------------------------------------------- SpecList
\* listSoloRounds: the stored rounds, newest first, cut at limit.
listSoloRounds(rs, limit) == SubSeq(rs, 1, IF Len(rs) < limit THEN Len(rs) ELSE limit)

ListFns == {"listSoloRoundsWithLifecycle", "listSoloRoundsByPlayerWithLifecycle"}

\* The caller whose request is the list call; the other callers poll rounds.
ListCaller == 1

ListLimits == {1, 2}

\* The round the other callers poll while the list call runs.
ListPolled == 1

\* The filter of the per-player list; the global list keeps every round.
ListMatches(fn, args, round) ==
  fn = "listSoloRoundsWithLifecycle" \/ matchesPlayer(round, args.playerAddress)

\* The rounds of the first read the loop runs processSoloRoundLifecycle on.
ListToProcess(fn, args, rounds) ==
  LET Selected(round) == ListMatches(fn, args, round) /\ round.status # "completed"
      selected == SelectSeq(rounds, Selected)
  IN [i \in 1..Len(selected) |-> selected[i].id]

\* Mutant of ListResult: the rounds of the first read are returned.
ListResult_FirstRead(c, refreshed) ==
  LET Matching(round) == ListMatches(c.fn, c.args, round)
      Pending(round) == round.status # "completed"
      matching == SelectSeq(c.initial, Matching)
  IN IF c.args.pendingOnly THEN SelectSeq(matching, Pending) ELSE matching

\* What the list call returns from its second read.
ListResult(c, refreshed) ==
  LET Matching(round) == ListMatches(c.fn, c.args, round)
      Pending(round) == round.status # "completed"
      matching == SelectSeq(refreshed, Matching)
  IN IF c.args.pendingOnly THEN SelectSeq(matching, Pending) ELSE matching

ListCall(fn, limit, playerAddress, pendingOnly) ==
  [fn |-> fn, done |-> FALSE, started |-> FALSE, failed |-> FALSE,
   args |-> [limit |-> limit, playerAddress |-> playerAddress,
             pendingOnly |-> pendingOnly],
   initial |-> <<>>, pending |-> <<>>, processed |-> {}, result |-> <<>>]

ListCalls ==
  {ListCall("listSoloRoundsWithLifecycle", l, <<>>, FALSE) : l \in ListLimits}
    \cup {ListCall("listSoloRoundsByPlayerWithLifecycle", l, p, o) :
            l \in ListLimits, p \in {<<"A">>, <<"b">>}, o \in BOOLEAN}

\* A round of an earlier game, completed as lost.
LostRound(roundId, playerAddress, move) ==
  [NewRound(roundId, playerAddress, move) EXCEPT
     !.status = "completed",
     !.payment = [status |-> "paid", transactionHash |-> roundId, paidAt |-> 0],
     !.result = [coin |-> CoinOf(1, move), outcome |-> OutcomeOf(1)],
     !.payout = LostPayout([PendingPayout EXCEPT !.status = "processing",
                                                 !.processedAt = Now])]

\* The store holds two rounds of two players when the list call arrives.
ListStores ==
  {<<NewRound(2, <<"b">>, "tails"), NewRound(1, <<"a">>, "heads")>>,
   <<NewRound(2, <<"b">>, "tails"), LostRound(1, <<"a">>, "heads")>>}

ListInit ==
  /\ chain = NoChain
  /\ backend \in {"local", "shared"}
  /\ orgEnv = <<"B", "b">>
  /\ inst \in IF backend = "local" THEN {[c \in Callers |-> "i1"]}
              ELSE {[c \in Callers |-> IF c = 1 THEN "i1" ELSE "i2"]}
  /\ rows \in ListStores
  /\ paidOnChain = {rows[i].id : i \in {j \in 1..Len(rows) : rows[j].status = "completed"}}
  /\ createRoundLocks = [i \in Instances |-> [k \in LockKeys |-> 0]]
  /\ previous = [c \in Callers |-> 0]
  /\ pc = [c \in Callers |-> "idle"]
  /\ fr = [c \in Callers |-> IdleFrame]
  /\ resolveCount = [r \in RoundIds |-> 0]
  /\ payoutCount = [r \in RoundIds |-> 0]
  /\ retryPayoutCount = [r \in RoundIds |-> 0]
  /\ call \in ListCalls

\* const rounds = await listSoloRounds(limit), and the filter of the loop.
ListStart ==
  /\ call.fn \in ListFns
  /\ ~call.started
  /\ pc[ListCaller] = "idle"
  /\ call' = [call EXCEPT !.started = TRUE,
                          !.initial = listSoloRounds(rows, call.args.limit),
                          !.pending = ListToProcess(call.fn, call.args,
                                        listSoloRounds(rows, call.args.limit))]
  /\ UNCHANGED <<chain, backend, orgEnv, inst, rows, paidOnChain, createRoundLocks, previous,
                 pc, fr, resolveCount, payoutCount, retryPayoutCount>>

\* await processSoloRoundLifecycle(round.id) for the next round of the loop:
\* the call starts with its getSoloRound.
ListProcess ==
  /\ call.fn \in ListFns
  /\ call.started /\ ~call.done
  /\ call.pending # <<>>
  /\ ProcessStart(ListCaller, Head(call.pending))

\* The lifecycle call of the loop has ended: the loop goes on to the next
\* round, or the error of the call ends the list call.
ListAdvance ==
  /\ call.fn \in ListFns
  /\ call.started /\ ~call.done
  /\ pc[ListCaller] = "returned"
  /\ call' = IF fr[ListCaller].error # NoError
             THEN [call EXCEPT !.done = TRUE, !.failed = TRUE]
             ELSE [call EXCEPT !.pending = Tail(@),
                               !.processed = @ \cup {Head(call.pending)}]
  /\ pc' = [pc EXCEPT ![ListCaller] = "idle"]
  /\ fr' = [fr EXCEPT ![ListCaller] = IdleFrame]
  /\ UNCHANGED <<chain, backend, orgEnv, inst, rows, paidOnChain, createRoundLocks, previous,
                 resolveCount, payoutCount, retryPayoutCount>>

\* The second listSoloRounds after the loop, and the return.
ListReturn ==
  /\ call.fn \in ListFns
  /\ call.started /\ ~call.done
  /\ call.pending = <<>>
  /\ pc[ListCaller] = "idle"
  /\ call' = [call EXCEPT !.done = TRUE,
                          !.result = ListResult(call, listSoloRounds(rows, call.args.limit))]
  /\ UNCHANGED <<chain, backend, orgEnv, inst, rows, paidOnChain, createRoundLocks, previous,
                 pc, fr, resolveCount, payoutCount, retryPayoutCount>>

\* One step of a lifecycle call after its first read.
LifecycleStep(c) ==
  \/ ProcessEventFound(c)
  \/ ProcessEventMissing(c)
  \/ ProcessHistoryFound(c)
  \/ ProcessHistoryMissing(c)
  \/ ProcessClaim(c)
  \/ ProcessClaimWrite(c)
  \/ ProcessPayout(c)
  \/ ProcessFinalize(c)
  \/ ProcessFinalizeWrite(c)
  \/ ProcessRetryPayout(c)
  \/ ProcessRetryUpdate(c)
  \/ ProcessRetryWrite(c)

NextList ==
  \/ ListStart
  \/ ListProcess
  \/ ListAdvance
  \/ ListReturn
  \/ \E c \in Callers \ {ListCaller} : ProcessStart(c, ListPolled)
  \/ \E c \in Callers : LifecycleStep(c)
  \/ \E c \in Callers \ {ListCaller} : Respond(c)
  \/ \E r \in RoundIds : PlayerPays(r)

SpecList == ListInit /\ [][NextList]_vars

\* --------------------------------------------------------------------- C21
\* C21: a list call (global or per player) that returns has run
\* processSoloRoundLifecycle on every round of its first read that was not
\* completed (and, per player, is a round of that player), each of these
\* calls has ended before the return, and the list returned is made of the
\* rounds as they are stored at the return, after all of that processing.
StoredNow(fn, args, rs) ==
  LET cut == IF Len(rs) < args.limit THEN Len(rs) ELSE args.limit
      Kept(i) ==
        /\ fn = "listSoloRoundsWithLifecycle"
             \/ EqualIgnoringCase(rs[i].playerAddress, args.playerAddress)
        /\ args.pendingOnly => rs[i].status # "completed"
  IN {rs[i] : i \in {j \in 1..cut : Kept(j)}}

ListReturns == call.fn \in ListFns /\ ~call.done /\ call'.done /\ ~call'.failed

SeqRange(s) == {s[i] : i \in 1..Len(s)}

C21_ListProcessesThenReads ==
  [][ListReturns =>
       /\ \A round \in SeqRange(call.initial) :
            (round.status # "completed"
               /\ (call.fn = "listSoloRoundsWithLifecycle"
                     \/ EqualIgnoringCase(round.playerAddress, call.args.playerAddress)))
              => round.id \in call.processed
       /\ pc[ListCaller] = "idle"
       /\ SeqRange(call'.result) = StoredNow(call.fn, call.args, rows)
       /\ Len(call'.result) = Cardinality(StoredNow(call.fn, call.args, rows))
       /\ rows' = rows]_vars

\* The list call returned a round as completed that its first read held as
\* awaiting_payment: the processing of the loop resolved it.
C21_Witness ==
  /\ call.fn \in ListFns /\ call.done /\ ~call.failed
  /\ \E i \in 1..Len(call.initial), j \in 1..Len(call.result) :
       /\ call.initial[i].status = "awaiting_payment"
       /\ call.result[j].id = call.initial[i].id
       /\ call.result[j].status = "completed"
       /\ call.initial[i].id \in call.processed

\* -------------------------------------------------------------- LiveSpec
\* A round is stored awaiting_payment and its qualifying transfer is on chain;
\* the callers poll it.  Every caller takes its next step (no call stops in
\* the middle, every response is followed by a new call), and a caller that
\* queries the event feed again and again eventually gets the event.
LiveInit ==
  /\ chain = NoChain
  /\ backend \in {"local", "shared"}
  /\ orgEnv = <<"B", "b">>
  /\ inst \in IF backend = "local" THEN {[c \in Callers |-> "i1"]}
              ELSE {[c \in Callers |-> IF c = 1 THEN "i1" ELSE "i2"]}
  /\ rows = <<NewRound(1, <<"a">>, "heads")>>
  /\ paidOnChain = {1}
  /\ createRoundLocks = [i \in Instances |-> [k \in LockKeys |-> 0]]
  /\ previous = [c \in Callers |-> 0]
  /\ pc = [c \in Callers |-> "idle"]
  /\ fr = [c \in Callers |-> IdleFrame]
  /\ resolveCount = [r \in RoundIds |-> 0]
  /\ payoutCount = [r \in RoundIds |-> 0]
  /\ retryPayoutCount = [r \in RoundIds |-> 0]
  /\ call = NoCall

LifeStep(c) ==
  \/ \E r \in StoredIds(rows) : ProcessStart(c, r)
  \/ ProcessEventFound(c)
  \/ ProcessEventMissing(c)
  \/ ProcessHistoryFound(c)
  \/ ProcessHistoryMissing(c)
  \/ ProcessClaim(c)
  \/ ProcessClaimWrite(c)
  \/ ProcessPayout(c)
  \/ ProcessFinalize(c)
  \/ ProcessFinalizeWrite(c)
  \/ ProcessRetryPayout(c)
  \/ ProcessRetryUpdate(c)
  \/ ProcessRetryWrite(c)
  \/ Respond(c)

NextLife == \E c \in Callers : LifeStep(c)

LiveSpec ==
  /\ LiveInit
  /\ [][NextLife]_vars
  /\ \A c \in Callers : WF_vars(LifeStep(c)) /\ SF_vars(ProcessEventFound(c))

\* --------------------------------------------------------------- SpecTime
\* The lifecycle of one stored round whose payment is on chain, with the
\* clock running: every updater stamps the round with the time it runs at.
MaxTime == 2

TimeTick ==
  /\ chain.now < MaxTime
  /\ chain' = [chain EXCEPT !.now = @ + 1]
  /\ UNCHANGED <<call, backend, orgEnv, inst, rows, paidOnChain, createRoundLocks,
                 previous, pc, fr, resolveCount, payoutCount, retryPayoutCount>>

NextTime ==
  \/ \E c \in Callers : LifeStep(c)
  \/ TimeTick

SpecTime == LiveInit /\ [][NextTime]_vars

\* --------------------------------------------------------------------- C32
\* C32: the stored updatedAt of a round never decreases from one state to
\* the next, and every write that changes the stored round (claim, final
\* write, legacy retry) stores the timestamp its updater took when it
\* changed the round.
Writes(c) ==
  \/ backend = "local" /\ pc[c] \in {"claim", "finalize", "retry_update"}
  \/ backend = "shared" /\ pc[c] \in {"claim_write", "finalize_write", "retry_write"}

StampedBy(c, round) ==
  IF backend = "local" THEN round.updatedAt = chain.now
  ELSE fr[c].next # fr[c].read /\ round.updatedAt = fr[c].next.updatedAt

C32_UpdatedAtMonotone ==
  [][\A i \in 1..Len(rows) :
       /\ rows'[i].updatedAt >= rows[i].updatedAt
       /\ rows'[i] # rows[i]
            => \E c \in Callers : Writes(c) /\ pc'[c] # pc[c] /\ StampedBy(c, rows'[i])]_vars

\* --------------------------------------------------------------------- C33
\* C33: in every state the payment of a stored round is paid exactly when
\* the round is resolving or completed, and then it carries the hash of the
\* transfer found for the round and the time it was paid at; the payment of
\* a stored round never goes back from paid to pending.
PaymentMatchesStatus(round) ==
  /\ round.payment.status = "paid" <=> round.status \in {"resolving", "completed"}
  /\ round.payment.status = "paid"
       => /\ round.payment.transactionHash = QueryFound(round.id).payment
          /\ round.payment.transactionHash # NoHash
          /\ round.payment.paidAt # NoTime

PaidStays ==
  \A r \in StoredIds(rows) :
    getSoloRound(rows, r).payment.status = "paid"
      => getSoloRound(rows', r).payment.status = "paid"

C33_PaidIffResolvingOrCompleted ==
  /\ [](\A i \in 1..Len(rows) : PaymentMatchesStatus(rows[i]))
  /\ [][PaidStays]_vars

\* A round is resolving with its payment paid while a second call, which
\* read the round before the claim, is about to write its own claim.
C33_Witness ==
  /\ \E i \in 1..Len(rows) :
       rows[i].status = "resolving" /\ rows[i].payment.status = "paid"
  /\ \E c \in Callers : pc[c] \in {"claim", "claim_write"}

\* --------------------------------------------------------------------- C34
\* C34: payoutSoloWinner returns status paid only after every transaction
\* of the payload was sent and its receipt came back with status success;
\* behind a Safe a transaction is sent only after its simulated execution
\* returned success; after a failed simulation nothing more is sent, and a
\* reverted receipt gives status failed.
SendCall == call.fn = "sendTransaction"

SeqIncludes(s, v) == \E i \in 1..Len(s) : s[i] = v

C34_PaidOnlyAfterReceipt ==
  SendCall =>
    /\ (call.done /\ call.result.status = "paid")
         => /\ call.args.txs >= 1
            /\ call.sent = [i \in 1..call.args.txs |-> i]
            /\ call.receipts = [i \in 1..call.args.txs |-> "success"]
    /\ call.args.safeAddress
         => \A i \in 1..Len(call.sent) : call.simulated[call.sent[i]] = "success"
    /\ \A i \in 1..Len(call.simulated) :
         call.simulated[i] # "success"
           => ~SeqIncludes(call.sent, i) /\ Len(call.sent) = i - 1
    /\ (call.done /\ (SeqIncludes(call.receipts, "reverted")
                        \/ SeqIncludes(call.simulated, "failure")))
         => call.result.status = "failed"

\* A payout behind a Safe is reported paid after both transactions of its
\* payload were simulated, sent and confirmed.
C34_Witness ==
  /\ SendCall /\ call.done /\ call.args.safeAddress
  /\ call.result.status = "paid"
  /\ Len(call.sent) = 2

\* --------------------------------------------------------------------- C35
\* C35: a call is about to invoke payoutSoloWinner for a round only while
\* the store holds that round with its payment paid, so never for a round
\* stored as awaiting_payment; in the resolution path the claim update has
\* returned the round with the call's own claim token.
AboutToPay(c) == pc[c] \in {"payout", "retry_payout"}

C35_PayoutOnlyForPaidRound ==
  \A c \in Callers :
    /\ AboutToPay(c)
         => /\ getSoloRound(rows, fr[c].rid) # NullRound
            /\ getSoloRound(rows, fr[c].rid).payment.status = "paid"
            /\ getSoloRound(rows, fr[c].rid).status # "awaiting_payment"
    /\ pc[c] = "payout"
         => /\ fr[c].claimToken # NoToken
            /\ fr[c].round.processingToken = fr[c].claimToken

\* One call is about to pay the winner while the other has returned the
\* resolving round that carries the first call's token.
C35_Witness ==
  \E c, d \in Callers :
    /\ pc[c] = "payout"
    /\ pc[d] = "returned" /\ fr[d].op = "process"
    /\ fr[d].ret # NullRound /\ fr[d].ret.status = "resolving"
    /\ fr[d].ret.processingToken = fr[c].claimToken

\* --------------------------------------------------------------------- C36
\* C36: once the result of a stored round is written, its coin and outcome
\* are the same in every later state, whatever calls run afterwards; a
\* write of the legacy payout retry changes nothing of the round but its
\* payout and its updatedAt.
ResultKept(r) ==
  getSoloRound(rows, r).result # NoResult
    => getSoloRound(rows', r).result = getSoloRound(rows, r).result

RetryWrites(c) ==
  \/ backend = "local" /\ pc[c] = "retry_update"
  \/ backend = "shared" /\ pc[c] = "retry_write"

OnlyPayoutChanged(before, after) ==
  after = [before EXCEPT !.payout = after.payout, !.updatedAt = after.updatedAt]

C36_ResultNeverChanges ==
  [][\A r \in StoredIds(rows) :
       /\ ResultKept(r)
       /\ \A c \in Callers :
            (RetryWrites(c) /\ pc'[c] # pc[c] /\ fr[c].rid = r)
              => OnlyPayoutChanged(getSoloRound(rows, r), getSoloRound(rows', r))]_vars

\* -------------------------------------------------------------- SpecBlock
\* Creation and the lifecycle as in SpecCreate, with one move, where
\* moreover the call of one caller may stop for good after it has claimed a
\* round.
BlockStopper == 1

\* The players that ask for rounds: one under two spellings, and another.
BlockPlayers == {<<"a">>, <<"A">>, <<"b">>}

NextBlock ==
  \/ \E c \in Callers, p \in BlockPlayers : StartCreateMore(c, p, "heads")
  \/ \E c \in Callers : CreateFindActive(c)
  \/ \E c \in Callers : CreatePreflight(c)
  \/ \E c \in Callers : CreateBuild(c)
  \/ \E c \in Callers : CreateInsert(c)
  \/ \E c \in Callers, r \in RoundIds : ProcessStartBounded(c, r)
  \/ \E c \in Callers : LifecycleStep(c)
  \/ \E c \in Callers : Respond(c)
  \/ \E r \in RoundIds : PlayerPays(r)
  \/ CallerStops(BlockStopper)

SpecBlock == Init /\ [][NextBlock]_vars

\* --------------------------------------------------------------------- C37
\* C37: a createSoloRound call that looks for the player's active round
\* while the store holds a round of that player that is awaiting_payment or
\* resolving fails with a SoloGameError of status 409 and stores nothing;
\* a resolving round whose claiming call has stopped stays resolving, so it
\* blocks every such call from then on.
ActiveRoundOf(playerAddress) ==
  \E i \in 1..Len(rows) :
    /\ matchesPlayer(rows[i], playerAddress)
    /\ rows[i].status \in {"awaiting_payment", "resolving"}

LooksForActive(c) == pc[c] = "lock_wait" /\ pc'[c] # "lock_wait"

PendingListReturns ==
  /\ ListReturns
  /\ call.fn = "listSoloRoundsByPlayerWithLifecycle"
  /\ call.args.pendingOnly

C38_PendingRoundListed ==
  [][PendingListReturns =>
       \A i \in 1..Len(rows) :
         (matchesPlayer(rows[i], call.args.playerAddress) /\ rows[i].status # "completed")
           => \E j \in 1..Len(call'.result) : call'.result[j] = rows[i]]_vars

\* ---------------------------------------------------------------------------
\* SpecWatch: the usePaymentWatcher hook.  Each run of the effect is a closure
\* with its own cancelled flag, timer and poll in flight.
MaxEffects == 2
MaxPolls == 2

WatchInputs == [enabled : BOOLEAN, dataValue : {"", "m1", "m2"}, minAmountCRC : {-1, 0, 1}]

WatchOutcomes == {"found", "none", "throws"}

\* The hook before its first effect has run.
EmptyWatch ==
  [fn |-> "usePaymentWatcher", done |-> FALSE, phase |-> "new",
   inputs |-> [enabled |-> FALSE, dataValue |-> "", minAmountCRC |-> 0],
   status |-> "idle", payment |-> "", error |-> "",
   effects |-> <<>>, current |-> 0, polls |-> 0, late |-> FALSE]

WatchInit ==
  /\ chain = NoChain
  /\ backend = "local"
  /\ orgEnv = <<"B", "b">>
  /\ inst = [c \in Callers |-> "i1"]
  /\ rows = <<>>
  /\ paidOnChain = {}
  /\ createRoundLocks = [i \in Instances |-> [k \in LockKeys |-> 0]]
  /\ previous = [c \in Callers |-> 0]
  /\ pc = [c \in Callers |-> "idle"]
  /\ fr = [c \in Callers |-> IdleFrame]
  /\ resolveCount = [r \in RoundIds |-> 0]
  /\ payoutCount = [r \in RoundIds |-> 0]
  /\ retryPayoutCount = [r \in RoundIds |-> 0]
  /\ call = EmptyWatch

WatchFrame == <<chain, backend, orgEnv, inst, rows, paidOnChain, createRoundLocks, previous,
                pc, fr, resolveCount, payoutCount, retryPayoutCount>>

\* The cleanup function of the running effect.
WatchCleanup(effects, current) ==
  IF current = 0 THEN effects
  ELSE [effects EXCEPT ![current].cancelled = TRUE, ![current].timer = FALSE]

\* The status a poll sets when it starts.
PollStatus(prev) == IF prev = "confirmed" THEN prev ELSE "waiting"

\* The effect runs: at mount, and again whenever an input changed.
WatchEffect(inputs) ==
  /\ call.fn = "usePaymentWatcher"
  /\ IF call.phase = "new" THEN TRUE ELSE call.phase = "mounted" /\ inputs # call.inputs
  /\ LET cleaned == WatchCleanup(call.effects, call.current)
         idle == ~inputs.enabled \/ inputs.dataValue = "" \/ inputs.minAmountCRC = 0
     IN /\ IF idle THEN TRUE ELSE Len(cleaned) < MaxEffects
        /\ call' = [call EXCEPT
             !.phase = "mounted",
             !.inputs = inputs,
             !.payment = "",
             !.error = "",
             !.status = IF idle THEN "idle" ELSE PollStatus(@),
             !.effects = IF idle THEN cleaned
                         ELSE Append(cleaned, [cancelled |-> FALSE, timer |-> FALSE,
                                               inflight |-> TRUE,
                                               dataValue |-> inputs.dataValue,
                                               minAmountCRC |-> inputs.minAmountCRC]),
             !.current = IF idle THEN 0 ELSE Len(cleaned) + 1,
             !.polls = IF idle THEN 0 ELSE 1]
  /\ UNCHANGED WatchFrame

\* Mutant of WatchPollResult: the result of a poll is applied without reading
\* cancelled.
WatchPollResult_IgnoresCancelled(e, outcome) ==
  /\ call.fn = "usePaymentWatcher"
  /\ e \in 1..Len(call.effects)
  /\ call.effects[e].inflight
  /\ outcome = "found" => call.effects[e].minAmountCRC > 0
  /\ call' = [call EXCEPT
       !.effects[e].inflight = FALSE,
       !.effects[e].timer = outcome # "found",
       !.payment = IF outcome = "found" THEN call.effects[e].dataValue ELSE @,
       !.error = IF outcome = "throws" THEN "Payment check failed" ELSE @,
       !.status = IF outcome = "found" THEN "confirmed"
                  ELSE IF outcome = "throws" THEN "error" ELSE @,
       !.late = @ \/ call.effects[e].cancelled]
  /\ UNCHANGED WatchFrame

\* checkPaymentReceived settles for the poll of effect e.
WatchPollResult(e, outcome) ==
  /\ call.fn = "usePaymentWatcher"
  /\ e \in 1..Len(call.effects)
  /\ call.effects[e].inflight
  /\ outcome = "found" => call.effects[e].minAmountCRC > 0
  /\ call' = IF call.effects[e].cancelled
             THEN [call EXCEPT !.effects[e].inflight = FALSE, !.late = TRUE]
             ELSE [call EXCEPT
                     !.effects[e].inflight = FALSE,
                     !.effects[e].timer = outcome # "found",
                     !.payment = IF outcome = "found" THEN call.effects[e].dataValue ELSE @,
                     !.error = IF outcome = "throws" THEN "Payment check failed" ELSE @,
                     !.status = IF outcome = "found" THEN "confirmed"
                                ELSE IF outcome = "throws" THEN "error" ELSE @]
  /\ UNCHANGED WatchFrame

\* The timer of effect e fires after intervalMs and poll runs again.
WatchTimer(e) ==
  /\ call.fn = "usePaymentWatcher"
  /\ e \in 1..Len(call.effects)
  /\ call.effects[e].timer
  /\ call' = IF call.effects[e].cancelled
             THEN [call EXCEPT !.effects[e].timer = FALSE]
             ELSE [call EXCEPT
                     !.effects[e].timer = FALSE,
                     !.effects[e].inflight = TRUE,
                     !.status = PollStatus(@),
                     !.polls = IF @ < MaxPolls THEN @ + 1 ELSE @]
  /\ UNCHANGED WatchFrame

\* The component unmounts: only the cleanup runs.
WatchUnmount ==
  /\ call.fn = "usePaymentWatcher"
  /\ call.phase = "mounted"
  /\ call' = [call EXCEPT !.phase = "unmounted",
                          !.effects = WatchCleanup(call.effects, call.current),
                          !.current = 0]
  /\ UNCHANGED WatchFrame

NextWatch ==
  \/ \E inputs \in WatchInputs : WatchEffect(inputs)
  \/ \E e \in 1..MaxEffects, outcome \in WatchOutcomes : WatchPollResult(e, outcome)
  \/ \E e \in 1..MaxEffects : WatchTimer(e)
  \/ WatchUnmount

\* A timer that stays armed fires.
SpecWatch ==
  WatchInit /\ [][NextWatch]_vars /\ WF_vars(\E e \in 1..MaxEffects : WatchTimer(e))

\* ---------------------------------------------------------------------------
\* C39
Polling == call.current # 0

CurrentEffect == call.effects[call.current]

\* Until a payment is found the running effect has a poll in flight or a timer
\* armed, after a failed poll as well; once found, neither.
PollsUntilFound ==
  Polling =>
    /\ IF call.payment # ""
       THEN /\ call.status = "confirmed"
            /\ call.payment = CurrentEffect.dataValue
            /\ ~CurrentEffect.inflight
            /\ ~CurrentEffect.timer
       ELSE CurrentEffect.inflight \/ CurrentEffect.timer
    /\ call.status = "error" => CurrentEffect.timer /\ call.error # ""

\* With the effect still running, a found payment and its status stay.
ConfirmedStays ==
  (Polling /\ call.payment # "" /\ call'.current = call.current) =>
    (call'.status = "confirmed" /\ call'.payment = call.payment /\ call'.polls = call.polls)

\* The result of a poll whose effect was cleaned up changes nothing.
LateResultIgnored ==
  \A e \in 1..Len(call.effects) :
    (call.effects[e].cancelled /\ call.effects[e].inflight /\ ~call'.effects[e].inflight) =>
      (call'.status = call.status /\ call'.payment = call.payment /\ call'.error = call.error)

TimerArmed(e) == e <= Len(call.effects) /\ call.effects[e].timer

\* C39: while the effect of usePaymentWatcher runs, a poll is in flight or the
\* next one is scheduled, after a failed poll (status error) too, and a
\* scheduled poll runs unless the effect is cleaned up first; the first poll
\* that finds a payment sets status confirmed and schedules nothing more; and
\* the result of a poll that returns after the cleanup of its effect changes
\* neither status, payment nor error.
C39_PollsUntilConfirmed ==
  /\ []PollsUntilFound
  /\ [][ConfirmedStays /\ LateResultIgnored]_vars
  /\ \A e \in 1..MaxEffects : TimerArmed(e) ~> ~TimerArmed(e)

\* A poll failed, the next one found the payment, and the result of a poll of
\* an earlier effect arrived after its cleanup.
C39_Witness ==
  /\ Polling
  /\ call.status = "confirmed"
  /\ call.payment # ""
  /\ call.error # ""
  /\ call.polls >= 2
  /\ call.late

\* ---------------------------------------------------------------------- C6
\* C6: with the qualifying payment available, callers that keep invoking
\* processSoloRoundLifecycle and never stop in the middle of a call, the
\* round eventually is completed with payment.status paid, and stays so.
CompletedAndPaid(r) ==
  /\ RowIndex(rows, r) # 0
  /\ getSoloRound(rows, r).status = "completed"
  /\ getSoloRound(rows, r).payment.status = "paid"

C6_EventuallyCompleted ==
  \A r \in RoundIds : [](r \in paidOnChain => <>[]CompletedAndPaid(r))

====
